---- MODULE Spec2Model ----
(***************************************************************************)
(* The video export queue and its worker (src/src/server/lib/queue.ts):    *)
(* the job records kept by the queue, the worker's processVideoExport      *)
(* with its temporary files, concurrent rasterizations, batched encoder    *)
(* invocations and progress reports, and the queue's retry and retention   *)
(* options.                                                                *)
(***************************************************************************)
EXTENDS Integers, Sequences, FiniteSets, TLC

(***************************************************************************)
(* Bounds of the model.                                                    *)
(***************************************************************************)
\* number of jobs ever submitted
NJobs == 2
\* largest number of (expanded) sub-cues of a job
MaxSubs == 5
\* largest number of progress events one encoder invocation reports
MaxProgressEvents == 2
\* largest number of progress writes in flight at once
MaxInflight == 2
\* the clock stops here
MaxTime == 2
\* BATCH_SIZE, queue.ts:318, is 200; the model scales it down
BATCH_SIZE == 2
\* removeOnComplete.count, queue.ts:27, is 1000; the model scales it down
KeepCompletedCount == 1
\* removeOnComplete.age, queue.ts:28, is 24 h; the model counts it in ticks
KeepCompletedAge == 2
\* removeOnFail.count, queue.ts:31, is 5000; the model scales it down
KeepFailedCount == 1
\* removeOnFail.age, queue.ts:32, is 7 days; the model counts it in ticks
KeepFailedAge == 2
\* largest number of cues of an export request
MaxCues == 2
\* latest instant of a cue boundary or of a frame
MaxT == 2
\* largest number of words of a cue (word timestamps, words of its text)
MaxWords == 2
\* latest instant of a cue or word boundary, in half milliseconds
MaxMs == 2
\* largest number of explicit lines of a text given to the layout
MaxSegments == 2
\* largest number of space-separated words of an explicit line
MaxLineWords == 2
\* clicks on the export button
MaxExports == 2
\* largest number of cues in the subtitle store
MaxStoreSubs == 2
\* MAX_HISTORY_LENGTH (50 in the program): the limit of the undo and redo stacks
MAX_HISTORY_LENGTH == 2

(***************************************************************************)
(* Program constants.                                                      *)
(***************************************************************************)
\* defaultJobOptions.attempts, queue.ts:21
Attempts == 3

JobIds == 1 .. NJobs

\* progress.percent values the encoder may report: falsy, in range, full,
\* and above 100 (fluent-ffmpeg derives percent from timemark / duration)
Percents == {0, 50, 100, 150}

NoJob == 0
None == <<>>

VARIABLES
  \* ---- the queue's job records (Redis) ----
  status,        \* job -> "none" | "waiting" | "active" | "delayed" | "completed" | "failed" | "removed"
  data,          \* job -> number of sub-cues the job's data expands to
  progress,      \* job -> progress, times Den(job) (exact arithmetic)
  attemptsMade,  \* job -> finished attempts
  returnvalue,   \* job -> None or <<content>>
  finishedOn,    \* job -> time stamp of the terminal transition
  now,           \* the clock
  \* ---- the file system ----
  disk,          \* the temporary files of the execution in progress: file -> content
  leaked,        \* whether a temporary file of an execution that ended remains
  \* ---- the worker slot (concurrency 1) running processVideoExport ----
  pc,
  cur,           \* the job being processed, or NoJob
  tmpIn,         \* the input temp file, or None
  previousBatchTmpFile,
  currentBatchOutputTmpFile,
  currentVideoPath,
  allPngPaths,   \* sequence of PNG paths collected for cleanup
  generated,     \* cue index -> path, the settled rasterizations of this attempt
  pending,       \* cue indices of rasterizations awaited by Promise.all
  orphans,       \* rasterizations still running that nobody awaits: set of paths
  i,             \* loop index of the batch loop
  accumulatedProgress, \* times the number of batches
  events,        \* progress events the running encoder has reported
  lastPercent,   \* the percent of its latest progress event
  inflight,      \* progress writes issued and not awaited, in issue order
  outcome,       \* "none" | "return" | "throw": how the execution ends
  resultBase64,  \* the bytes read as the result, or None
  lastError,     \* the class of the error the execution throws, or "none"
  \* ---- history, for stating the properties ----
  started,       \* job -> number of times the processor was started
  encStarted,    \* encoder invocations of the current attempt
  encOk,         \* encoder invocations of the current attempt that ended well
  encFailed,     \* whether an encoder invocation of the current attempt failed
  delFailed,     \* whether a deletion of the current attempt failed
  batches,       \* the slices <<first, last>> of sub-cues given to the encoder, in order
  targeted,      \* the files a deletion of the current attempt was called on
  retargeted,    \* those of them a deletion was called on more than once
  lateWrites,    \* whether progress writes were in flight when the last batch ended
  \* ---- one export request through input schema, filter graph and frames ----
  request,       \* the input of exportWithSubs, or None
  phase,         \* "none" | "received" | "rejected" | "accepted" | "built" | "composed"
  filterComplex, \* the overlays of the filter graph, in chain order
  frameT,        \* the timestamp of the frame composed last
  shown,         \* the overlays enabled on that frame
  \* ---- one call of splitSubtitleIntoWords ----
  subtitle,      \* the cue passed, or None
  effectType,    \* the effect passed
  wordSubtitles, \* the list returned
  returned,      \* whether the call has returned
  \* ---- the expansion loop of processVideoExport on one job's cues ----
  subs,          \* the cues of the job data
  styleEffect,   \* style.effectType of the job data
  processedSubsForFfmpeg, \* the sub-cues, in the order they are pushed
  expandedFrom,  \* for each sub-cue, the index of the cue it was pushed for
  expanded,      \* whether the loop is over
  \* ---- one call of runFfmpegBatch ----
  batchArgs,     \* its arguments subtitles, pngPaths, style, videoHeight, or None
  ffmpegCommand, \* the encoder command it has set up, or None
  batchPhase,    \* "none" | "called" | "thrown" | "spawned" | "resolved" | "rejected"
  \* ---- calls of calculateSubtitleLayoutMetrics in one process ----
  layoutArgs,    \* the arguments text, fontFamily, videoHeight of the calls observed, or None
  fontFiles,     \* the font families whose file exists in FONTS_DIR
  registeredFonts, \* the process-wide set registeredFonts
  metrics,       \* the metrics returned by the latest observed call, or None
  firstMetrics,  \* the metrics returned by the first observed call, or None
  \* ---- the frames of one cue in the effect branch of processVideoExport ----
  canvases,      \* the sizes of the canvases created by renderSubtitleToPng, in order
  \* ---- the editor component: its export state and its handleExport calls ----
  exportJobId,   \* the state exportJobId: None or <<job>>
  exportStatus,  \* the state exportStatus: "null", 'starting', 'queued', 'failed' or a polled status
  mutation,      \* exportVideoMutation: the call that mutated last and its status
  handlers,      \* handleExport call -> its position and the job it submitted (0: none)
  exportJobs,    \* the statuses of the export jobs submitted, by job id
  \* ---- the subtitle store of the editor ----
  useSubtitleStore \* the store's state: subtitles, undoStack, redoStack

qvars == <<status, data, progress, attemptsMade, returnvalue, finishedOn, now>>
wvars == <<pc, cur, tmpIn, previousBatchTmpFile, currentBatchOutputTmpFile,
           currentVideoPath, allPngPaths, generated, pending, i,
           accumulatedProgress, events, lastPercent, outcome, resultBase64,
           lastError>>
hvars == <<started, encStarted, encOk, encFailed, delFailed>>
\* the queue, the worker and its files
\* more history of the current attempt
dvars == <<batches, targeted, retargeted, lateWrites>>
svars == <<qvars, disk, leaked, wvars, orphans, inflight, hvars, dvars>>
\* the export request, its filter graph and its frames
ovars == <<request, phase, filterComplex, frameT, shown>>
\* the call of splitSubtitleIntoWords
xvars == <<subtitle, effectType, wordSubtitles, returned>>
\* the expansion loop of processVideoExport on a list of cues
evars == <<subs, styleEffect, processedSubsForFfmpeg, expandedFrom, expanded>>
\* one call of runFfmpegBatch
bvars == <<batchArgs, ffmpegCommand, batchPhase>>
\* calls of calculateSubtitleLayoutMetrics
lvars == <<layoutArgs, fontFiles, registeredFonts, metrics, firstMetrics>>
\* the canvases of the frames of one cue
gvars == <<canvases>>
\* the state of the models that follow the layout
\* the editor component
uvars == <<exportJobId, exportStatus, mutation, handlers, exportJobs>>
\* the subtitle store
tvars == <<useSubtitleStore>>
nvars == <<gvars, uvars, tvars>>
pvars == <<ovars, xvars, evars, bvars, lvars, nvars>>
vars == <<svars, pvars>>

(***************************************************************************)
(* Helpers.                                                                *)
(***************************************************************************)
Min(a, b) == IF a <= b THEN a ELSE b

\* Math.ceil(processedSubsForFfmpeg.length / BATCH_SIZE)
TotalBatches(m) == (m + BATCH_SIZE - 1) \div BATCH_SIZE

\* The model keeps every progress value of job j multiplied by Den(j), so that
\* weightPerBatch = 100 / totalBatches is the integer 100.
Den(j) == IF TotalBatches(data[j]) = 0 THEN 1 ELSE TotalBatches(data[j])

\* Math.min(100, progressOffset + percent * (batchWeight / 100)), times n
OverallProgress(offset, percent, n) == Min(100 * n, offset + percent)

\* a slice that always starts at the head of the list: list.slice(0, from + BATCH_SIZE)
SliceLenFromHead(len, from) == Min(len, from + BATCH_SIZE)

\* the length of list.slice(from, from + BATCH_SIZE) of a list of length len
SliceLen(len, from) == Min(len, from + BATCH_SIZE) - Min(len, from)

\* a temporary file path: unique per job, attempt, kind and index
Path(j, a, kind, k) == <<j, a, kind, k>>

Attempt == IF cur = NoJob THEN 0 ELSE started[cur]

Exists(f) == f \in DOMAIN disk

WriteFile(d, f, c) == [g \in DOMAIN d \cup {f} |-> IF g = f THEN c ELSE d[g]]

\* a deletion that removes nothing
UnlinkNothing(d, f) == d

Unlink(d, f) == [g \in DOMAIN d \ {f} |-> d[g]]

UnlinkAll(d, fs) == [g \in DOMAIN d \ fs |-> d[g]]

\* the range of a sequence
Range(s) == {s[k] : k \in 1 .. Len(s)}

(***************************************************************************)
(* The ioredis connection shared by every command of the worker: Redis     *)
(* serves the commands of one connection in the order they were issued, so *)
(* an awaited command takes effect after every write issued before it.     *)
(***************************************************************************)
\* a variant of PipeDrained: the commands are served in no particular order
PipeUnordered == TRUE

PipeDrained == inflight = <<>>

(***************************************************************************)
(* Retention of finished jobs (removeOnComplete / removeOnFail): applied   *)
(* by the queue when a job finishes.                                       *)
(***************************************************************************)
\* The time stamp of a job that finishes at time t: the tick, and within the
\* tick the number of jobs that finished before (the worker finishes one job
\* at a time, so the stamps of two jobs differ).
Stamp(t, st) ==
  <<t, Cardinality({k \in JobIds : st[k] \in {"completed", "failed", "removed"}})>>

\* stamp a is later than stamp b
Later(a, b) == a[1] > b[1] \/ (a[1] = b[1] /\ a[2] > b[2])

\* jobs of the finished set `kind` that are newer than j
Newer(st, fin, kind, j) ==
  {k \in JobIds : st[k] = kind /\ k # j /\ Later(fin[k], fin[j])}

\* removeJobsByMaxAge: drops what finished maxAge or more before t
RemoveByMaxAge(st, fin, kind, maxAge, t) ==
  [k \in JobIds |-> IF st[k] = kind /\ fin[k][1] <= t - maxAge THEN "removed" ELSE st[k]]

\* a variant of RemoveByMaxCount: keeps one job more
RemoveByMaxCountKeepsOneMore(st, fin, kind, maxCount) ==
  [k \in JobIds |-> IF st[k] = kind /\ Cardinality(Newer(st, fin, kind, k)) > maxCount
                    THEN "removed" ELSE st[k]]

\* removeJobsByMaxCount: keeps the maxCount newest
RemoveByMaxCount(st, fin, kind, maxCount) ==
  [k \in JobIds |-> IF st[k] = kind /\ Cardinality(Newer(st, fin, kind, k)) >= maxCount
                    THEN "removed" ELSE st[k]]

Retain(st, fin, kind, maxAge, maxCount, t) ==
  RemoveByMaxCount(RemoveByMaxAge(st, fin, kind, maxAge, t), fin, kind, maxCount)

(***************************************************************************)
(* The initial state: an empty queue, an idle worker, no temporary file.   *)
(***************************************************************************)
IdleWorker ==
  /\ pc' = "idle"
  /\ cur' = NoJob
  /\ tmpIn' = None
  /\ previousBatchTmpFile' = None
  /\ currentBatchOutputTmpFile' = None
  /\ currentVideoPath' = None
  /\ allPngPaths' = <<>>
  /\ generated' = <<>>
  /\ pending' = {}
  /\ i' = 0
  /\ accumulatedProgress' = 0
  /\ events' = 0
  /\ lastPercent' = 0
  /\ outcome' = "none"
  /\ resultBase64' = None
  /\ lastError' = "none"
  /\ encStarted' = 0
  /\ encOk' = 0
  /\ encFailed' = FALSE
  /\ delFailed' = FALSE
  /\ batches' = <<>>
  /\ targeted' = {}
  /\ retargeted' = {}
  /\ lateWrites' = FALSE

InitQueue ==
  /\ status = [j \in JobIds |-> "none"]
  /\ data = [j \in JobIds |-> 0]
  /\ progress = [j \in JobIds |-> 0]
  /\ attemptsMade = [j \in JobIds |-> 0]
  /\ returnvalue = [j \in JobIds |-> None]
  /\ finishedOn = [j \in JobIds |-> <<0, 0>>]
  /\ now = 0
  /\ disk = <<>>
  /\ leaked = FALSE
  /\ pc = "idle"
  /\ cur = NoJob
  /\ tmpIn = None
  /\ previousBatchTmpFile = None
  /\ currentBatchOutputTmpFile = None
  /\ currentVideoPath = None
  /\ allPngPaths = <<>>
  /\ generated = <<>>
  /\ pending = {}
  /\ orphans = {}
  /\ i = 0
  /\ accumulatedProgress = 0
  /\ events = 0
  /\ lastPercent = 0
  /\ inflight = <<>>
  /\ outcome = "none"
  /\ resultBase64 = None
  /\ lastError = "none"
  /\ started = [j \in JobIds |-> 0]
  /\ encStarted = 0
  /\ encOk = 0
  /\ encFailed = FALSE
  /\ delFailed = FALSE
  /\ batches = <<>>
  /\ targeted = {}
  /\ retargeted = {}
  /\ lateWrites = FALSE

\* no export request
NoRequest ==
  /\ request = None
  /\ phase = "none"
  /\ filterComplex = <<>>
  /\ frameT = 0
  /\ shown = {}

\* no call of splitSubtitleIntoWords
NoCall ==
  /\ subtitle = None
  /\ effectType = "none"
  /\ wordSubtitles = <<>>
  /\ returned = FALSE

\* no expansion of a cue list
NoExpansion ==
  /\ subs = <<>>
  /\ styleEffect = "none"
  /\ processedSubsForFfmpeg = <<>>
  /\ expandedFrom = <<>>
  /\ expanded = FALSE

\* no call of runFfmpegBatch outside the worker
NoBatch ==
  /\ batchArgs = None
  /\ ffmpegCommand = None
  /\ batchPhase = "none"

\* no layout call is observed
NoLayout ==
  /\ layoutArgs = None
  /\ fontFiles = {}
  /\ registeredFonts = {}
  /\ metrics = None
  /\ firstMetrics = None

\* no frame is rendered
NoFrames == canvases = <<>>

\* the editor before any click on the export button
InitEditor ==
  /\ exportJobId = None
  /\ exportStatus = "null"
  /\ mutation = [call |-> 0, status |-> "idle"]
  /\ handlers = [c \in 1 .. MaxExports |-> [pc |-> "idle", job |-> 0]]
  /\ exportJobs = <<>>

\* the store as created: subtitles: [], undoStack: [], redoStack: []
InitStore ==
  useSubtitleStore = [subtitles |-> <<>>, undoStack |-> <<>>, redoStack |-> <<>>]

NoOther == NoFrames /\ InitEditor /\ InitStore

Init == InitQueue /\ NoRequest /\ NoCall /\ NoExpansion /\ NoBatch /\ NoLayout /\ NoOther

(***************************************************************************)
(* The queue.                                                              *)
(***************************************************************************)
\* Nothing reads the temporary files of an execution once it has ended (the
\* paths are unique), so the model keeps of them only whether any remains.
\* A rasterization left running writes a path that no other step touches: its
\* settling commutes with every other step, and the model lets it settle
\* before the end of the execution is reported.
ExecutionOver ==
  /\ orphans = {}
  /\ leaked' = (leaked \/ DOMAIN disk # {})
  /\ disk' = <<>>
  /\ UNCHANGED orphans

\* The producer adds a job (the queue assigns the ids in order); m is the
\* number of sub-cues its data expands to.
Submit(j, m) ==
  /\ status[j] = "none"
  /\ \A k \in JobIds : k < j => status[k] # "none"
  /\ status' = [status EXCEPT ![j] = "waiting"]
  /\ data' = [data EXCEPT ![j] = m]
  /\ UNCHANGED <<progress, attemptsMade, returnvalue, finishedOn, now, disk,
                 leaked, wvars, orphans, inflight, hvars>>
  /\ UNCHANGED pvars
  /\ UNCHANGED dvars

\* The worker takes a waiting job and starts processVideoExport on it.
MoveToActive(j) ==
  /\ pc = "idle"
  /\ status[j] = "waiting"
  /\ status' = [status EXCEPT ![j] = "active"]
  /\ started' = [started EXCEPT ![j] = @ + 1]
  /\ pc' = "start"
  /\ cur' = j
  /\ UNCHANGED <<data, progress, attemptsMade, returnvalue, finishedOn, now, disk,
                 leaked, tmpIn, previousBatchTmpFile, currentBatchOutputTmpFile,
                 currentVideoPath, allPngPaths, generated, pending, i,
                 accumulatedProgress, events, outcome, resultBase64, lastError,
                 orphans, inflight, encStarted, encOk, encFailed,
                 lastPercent, delFailed>>
  /\ UNCHANGED pvars
  /\ UNCHANGED dvars

\* a variant of PromoteDelayed: the job skips the waiting list
PromoteDelayedToActive(j) ==
  /\ status[j] = "delayed"
  /\ status' = [status EXCEPT ![j] = "active"]
  /\ UNCHANGED <<data, progress, attemptsMade, returnvalue, finishedOn, now, disk,
                 leaked, wvars, orphans, inflight, hvars>>
  /\ UNCHANGED pvars
  /\ UNCHANGED dvars

\* The backoff delay of a failed attempt has passed.
PromoteDelayed(j) ==
  /\ status[j] = "delayed"
  /\ status' = [status EXCEPT ![j] = "waiting"]
  /\ UNCHANGED <<data, progress, attemptsMade, returnvalue, finishedOn, now, disk,
                 leaked, wvars, orphans, inflight, hvars>>
  /\ UNCHANGED pvars
  /\ UNCHANGED dvars

Tick ==
  /\ now < MaxTime
  /\ now' = now + 1
  /\ UNCHANGED <<status, data, progress, attemptsMade, returnvalue, finishedOn,
                 disk, leaked, wvars, orphans, inflight, hvars>>
  /\ UNCHANGED pvars
  /\ UNCHANGED dvars

\* The processor returned: the job completes with its return value, and the
\* completed set is trimmed.
MoveToCompleted ==
  /\ pc = "ended"
  /\ outcome = "return"
  /\ PipeDrained
  /\ LET fin == [finishedOn EXCEPT ![cur] = Stamp(now, status)]
         st == [status EXCEPT ![cur] = "completed"]
     IN /\ finishedOn' = fin
        /\ status' = Retain(st, fin, "completed", KeepCompletedAge, KeepCompletedCount, now)
  /\ returnvalue' = [returnvalue EXCEPT ![cur] = resultBase64]
  /\ attemptsMade' = [attemptsMade EXCEPT ![cur] = @ + 1]
  /\ IdleWorker
  /\ ExecutionOver
  /\ UNCHANGED <<data, progress, now, inflight, started>>
  /\ UNCHANGED pvars

\* a variant of ShouldRetry: one attempt too many
ShouldRetryOnceMore(made, err) == made <= Attempts

\* Whether a failed attempt is retried: every error is, up to the attempt limit.
ShouldRetry(made, err) == made < Attempts

\* The processor threw: the job is delayed for another attempt, or fails for
\* good and the failed set is trimmed.
MoveToFailed ==
  /\ pc = "ended"
  /\ outcome = "throw"
  /\ PipeDrained
  /\ attemptsMade' = [attemptsMade EXCEPT ![cur] = @ + 1]
  /\ IF ShouldRetry(attemptsMade[cur] + 1, lastError)
     THEN /\ status' = [status EXCEPT ![cur] = "delayed"]
          /\ UNCHANGED finishedOn
     ELSE LET fin == [finishedOn EXCEPT ![cur] = Stamp(now, status)]
              st == [status EXCEPT ![cur] = "failed"]
          IN /\ finishedOn' = fin
             /\ status' = Retain(st, fin, "failed", KeepFailedAge, KeepFailedCount, now)
  /\ IdleWorker
  /\ ExecutionOver
  /\ UNCHANGED <<data, progress, returnvalue, now, inflight, started>>
  /\ UNCHANGED pvars

(***************************************************************************)
(* processVideoExport, one action per step between two awaits.             *)
(***************************************************************************)
jvars == <<status, data, attemptsMade, returnvalue, finishedOn, now, started, leaked>>

\* a deletion is called on each file of fs
Targeting(fs) ==
  /\ targeted' = targeted \cup fs
  /\ retargeted' = retargeted \cup (fs \cap targeted)

\* an exception inside the try block: control goes to the finally block
Throw(err) ==
  /\ outcome' = "throw"
  /\ lastError' = err
  /\ pc' = "finally"

\* await job.updateProgress(0)
UpdateProgress0 ==
  /\ pc = "start"
  /\ PipeDrained
  /\ progress' = [progress EXCEPT ![cur] = 0]
  /\ pc' = "setup"
  /\ UNCHANGED <<jvars, disk, cur, tmpIn, previousBatchTmpFile,
                 currentBatchOutputTmpFile, currentVideoPath, allPngPaths,
                 generated, pending, i, accumulatedProgress, events, outcome,
                 resultBase64, lastError, orphans, inflight,
                 encStarted, encOk, encFailed,
                 lastPercent, delFailed>>
  /\ UNCHANGED pvars
  /\ UNCHANGED dvars

\* getFfmpegPath, chmod and tmpFile for the input: a failure here is outside
\* the try block, so no cleanup runs.
Setup(ok) ==
  /\ pc = "setup"
  /\ IF ok
     THEN /\ tmpIn' = Path(cur, Attempt, "in", 0)
          /\ disk' = WriteFile(disk, Path(cur, Attempt, "in", 0), "empty")
          /\ pc' = "write"
          /\ UNCHANGED <<outcome, lastError>>
     ELSE /\ outcome' = "throw"
          /\ lastError' = "io"
          /\ pc' = "ended"
          /\ UNCHANGED <<tmpIn, disk>>
  /\ UNCHANGED <<jvars, progress, cur, previousBatchTmpFile,
                 currentBatchOutputTmpFile, currentVideoPath, allPngPaths,
                 generated, pending, i, accumulatedProgress, events,
                 resultBase64, orphans, inflight, encStarted, encOk, encFailed,
                 lastPercent, delFailed>>
  /\ UNCHANGED pvars
  /\ UNCHANGED dvars

\* fs.writeFile(tmpIn.path, ...) and getVideoSize(tmpIn.path)
WriteInput(r) ==
  /\ pc = "write"
  /\ disk' = IF r = "io" THEN disk ELSE WriteFile(disk, tmpIn, <<cur, 0>>)
  /\ IF r = "ok"
     THEN pc' = "raster" /\ UNCHANGED <<outcome, lastError>>
     ELSE Throw(r)
  /\ UNCHANGED <<jvars, progress, cur, tmpIn, previousBatchTmpFile,
                 currentBatchOutputTmpFile, currentVideoPath, allPngPaths,
                 generated, pending, i, accumulatedProgress, events,
                 resultBase64, orphans, inflight, encStarted, encOk, encFailed,
                 lastPercent, delFailed>>
  /\ UNCHANGED pvars
  /\ UNCHANGED dvars

\* the loop that starts one renderSubtitleToPng per sub-cue
StartRasterizations ==
  /\ pc = "raster"
  /\ pending' = 1 .. data[cur]
  /\ pc' = "awaitPngs"
  /\ UNCHANGED <<jvars, progress, disk, cur, tmpIn, previousBatchTmpFile,
                 currentBatchOutputTmpFile, currentVideoPath, allPngPaths,
                 generated, i, accumulatedProgress, events, outcome,
                 resultBase64, lastError, orphans, inflight,
                 encStarted, encOk, encFailed,
                 lastPercent, delFailed>>
  /\ UNCHANGED pvars
  /\ UNCHANGED dvars

\* renderSubtitleToPng of sub-cue k wrote its PNG and returned the path
RasterOk(k) ==
  /\ pc = "awaitPngs"
  /\ k \in pending
  /\ disk' = WriteFile(disk, Path(cur, Attempt, "png", k), <<"png", k>>)
  /\ generated' = [g \in DOMAIN generated \cup {k} |->
                     IF g = k THEN Path(cur, Attempt, "png", k) ELSE generated[g]]
  /\ pending' = pending \ {k}
  /\ UNCHANGED <<jvars, progress, pc, cur, tmpIn, previousBatchTmpFile,
                 currentBatchOutputTmpFile, currentVideoPath, allPngPaths, i,
                 accumulatedProgress, events, outcome, resultBase64, lastError,
                 orphans, inflight, encStarted, encOk, encFailed,
                 lastPercent, delFailed>>
  /\ UNCHANGED pvars
  /\ UNCHANGED dvars

\* renderSubtitleToPng of sub-cue k failed (leaves: after tmp.file created the
\* file): Promise.all rejects at once, the other rasterizations keep running.
RasterFail(k, leaves) ==
  /\ pc = "awaitPngs"
  /\ k \in pending
  /\ disk' = IF leaves THEN WriteFile(disk, Path(cur, Attempt, "png", k), "empty") ELSE disk
  /\ orphans' = orphans \cup {Path(cur, Attempt, "png", kk) : kk \in pending \ {k}}
  /\ pending' = {}
  /\ Throw("raster")
  /\ UNCHANGED <<jvars, progress, cur, tmpIn, previousBatchTmpFile,
                 currentBatchOutputTmpFile, currentVideoPath, allPngPaths,
                 generated, i, accumulatedProgress, events, resultBase64,
                 inflight, encStarted, encOk, encFailed,
                 lastPercent, delFailed>>
  /\ UNCHANGED pvars
  /\ UNCHANGED dvars

\* a rasterization that nobody awaits any more settles
OrphanSettle(f, ok) ==
  /\ f \in orphans
  /\ orphans' = orphans \ {f}
  /\ disk' = IF ok THEN WriteFile(disk, f, <<"png", f[4]>>) ELSE disk
  /\ UNCHANGED <<jvars, progress, wvars, inflight, encStarted, encOk, encFailed,
                 delFailed>>
  /\ UNCHANGED pvars
  /\ UNCHANGED dvars

\* a Promise.all whose result lists the values from the last promise to the first
PromiseAllReversed(gen, n) == [k \in 1 .. n |-> gen[n + 1 - k]]

\* Promise.all(pngGenerationPromises) of n promises whose values are gen: the
\* values in the order of the promises, whatever order they settled in
PromiseAll(gen, n) == [k \in 1 .. n |-> gen[k]]

\* Promise.all resolved: the paths are collected for the cleanup
PngsDone ==
  /\ pc = "awaitPngs"
  /\ pending = {}
  /\ allPngPaths' = PromiseAll(generated, data[cur])
  /\ currentVideoPath' = tmpIn
  /\ accumulatedProgress' = 0
  /\ i' = 0
  /\ pc' = "loop"
  /\ UNCHANGED <<jvars, progress, disk, cur, tmpIn, previousBatchTmpFile,
                 currentBatchOutputTmpFile, generated, pending, events, outcome,
                 resultBase64, lastError, orphans, inflight,
                 encStarted, encOk, encFailed,
                 lastPercent, delFailed>>
  /\ UNCHANGED pvars
  /\ UNCHANGED dvars

\* the batch loop's test fails: the loop is over
LoopExit ==
  /\ pc = "loop"
  /\ ~(i < data[cur])
  /\ pc' = "read"
  /\ UNCHANGED <<jvars, progress, disk, cur, tmpIn, previousBatchTmpFile,
                 currentBatchOutputTmpFile, currentVideoPath, allPngPaths,
                 generated, pending, i, accumulatedProgress, events, outcome,
                 resultBase64, lastError, orphans, inflight,
                 encStarted, encOk, encFailed,
                 lastPercent, delFailed>>
  /\ UNCHANGED pvars
  /\ UNCHANGED dvars

\* a loop that runs its body once also for an empty list
BatchAllocWhenEmpty(ok) ==
  /\ pc = "loop"
  /\ i < data[cur] \/ data[cur] = 0
  /\ IF ok
     THEN /\ currentBatchOutputTmpFile' = Path(cur, Attempt, "out", i \div BATCH_SIZE)
          /\ disk' = WriteFile(disk, Path(cur, Attempt, "out", i \div BATCH_SIZE), "empty")
          /\ pc' = "encode"
          /\ UNCHANGED <<outcome, lastError>>
     ELSE /\ Throw("io")
          /\ UNCHANGED <<currentBatchOutputTmpFile, disk>>
  /\ UNCHANGED <<jvars, progress, cur, tmpIn, previousBatchTmpFile,
                 currentVideoPath, allPngPaths, generated, pending, i,
                 accumulatedProgress, events, resultBase64, orphans, inflight,
                 encStarted, encOk, encFailed,
                 lastPercent, delFailed>>
  /\ UNCHANGED pvars
  /\ UNCHANGED dvars

\* one more batch: tmpFile for its output
BatchAlloc(ok) ==
  /\ pc = "loop"
  /\ i < data[cur]
  /\ IF ok
     THEN /\ currentBatchOutputTmpFile' = Path(cur, Attempt, "out", i \div BATCH_SIZE)
          /\ disk' = WriteFile(disk, Path(cur, Attempt, "out", i \div BATCH_SIZE), "empty")
          /\ pc' = "encode"
          /\ UNCHANGED <<outcome, lastError>>
     ELSE /\ Throw("io")
          /\ UNCHANGED <<currentBatchOutputTmpFile, disk>>
  /\ UNCHANGED <<jvars, progress, cur, tmpIn, previousBatchTmpFile,
                 currentVideoPath, allPngPaths, generated, pending, i,
                 accumulatedProgress, events, resultBase64, orphans, inflight,
                 encStarted, encOk, encFailed,
                 lastPercent, delFailed>>
  /\ UNCHANGED pvars
  /\ UNCHANGED dvars

\* a length check that only refuses missing images
FilterComplexThrowsOnFewerPngs(nSubs, nPngs) == nSubs > nPngs

\* buildOverlayFilterComplex: the two slices must have the same length
FilterComplexThrows(nSubs, nPngs) == nSubs # nPngs

\* runFfmpegBatch up to the spawn of the encoder
RunFfmpegBatch ==
  /\ pc = "encode"
  /\ IF FilterComplexThrows(SliceLen(data[cur], i), SliceLen(Len(allPngPaths), i))
     THEN /\ Throw("validation")
          /\ UNCHANGED <<encStarted, events, lastPercent, batches>>
     ELSE /\ pc' = "encoding"
          /\ encStarted' = encStarted + 1
          /\ batches' = Append(batches, <<i + 1, i + SliceLen(data[cur], i)>>)
          /\ events' = 0
          /\ lastPercent' = 0
          /\ UNCHANGED <<outcome, lastError>>
  /\ UNCHANGED <<jvars, progress, disk, cur, tmpIn, previousBatchTmpFile,
                 currentBatchOutputTmpFile, currentVideoPath, allPngPaths,
                 generated, pending, i, accumulatedProgress, resultBase64,
                 orphans, inflight, encOk, encFailed,
                 delFailed>>
  /\ UNCHANGED <<targeted, retargeted, lateWrites>>
  /\ UNCHANGED pvars

\* whether the progress handler reports this percent
Reported(percent) == percent # 0 /\ percent >= 0

\* the encoder's 'progress' event: job.updateProgress is started, not awaited
\* (the encoder's percent follows the time it has encoded: it does not go back)
EncoderProgress(percent) ==
  /\ pc = "encoding"
  /\ events < MaxProgressEvents
  /\ Len(inflight) < MaxInflight
  /\ percent >= lastPercent
  /\ events' = events + 1
  /\ lastPercent' = percent
  /\ inflight' = IF Reported(percent)
                 THEN Append(inflight,
                        <<cur, OverallProgress(accumulatedProgress, percent, Den(cur))>>)
                 ELSE inflight
  /\ UNCHANGED <<jvars, progress, disk, pc, cur, tmpIn, previousBatchTmpFile,
                 currentBatchOutputTmpFile, currentVideoPath, allPngPaths,
                 generated, pending, i, accumulatedProgress, outcome,
                 resultBase64, lastError, orphans, encStarted, encOk, encFailed,
                 delFailed>>
  /\ UNCHANGED pvars
  /\ UNCHANGED dvars

\* Redis applies the oldest progress write in flight
ApplyProgress ==
  /\ inflight # <<>>
  /\ LET w == Head(inflight)
     IN progress' = IF status[w[1]] \in {"none", "removed"}
                    THEN progress
                    ELSE [progress EXCEPT ![w[1]] = w[2]]
  /\ inflight' = Tail(inflight)
  /\ UNCHANGED <<jvars, disk, wvars, orphans, encStarted, encOk, encFailed,
                 delFailed>>
  /\ UNCHANGED pvars
  /\ UNCHANGED dvars

\* a video (the input of job v[1] with v[2] sub-cues burnt in) with n more
Overlay(v, n) == <<v[1], v[2] + n>>

\* the encoder's 'end' event: the batch output holds the input plus the batch
EncoderEnd ==
  /\ pc = "encoding"
  /\ disk' = WriteFile(disk, currentBatchOutputTmpFile,
                       Overlay(disk[currentVideoPath], SliceLen(data[cur], i)))
  /\ encOk' = encOk + 1
  /\ pc' = "afterBatch"
  /\ UNCHANGED <<jvars, progress, cur, tmpIn, previousBatchTmpFile,
                 currentBatchOutputTmpFile, currentVideoPath, allPngPaths,
                 generated, pending, i, accumulatedProgress, events, outcome,
                 resultBase64, lastError, orphans, inflight, encStarted, encFailed,
                 lastPercent, delFailed>>
  /\ UNCHANGED pvars
  /\ lateWrites' = (inflight # <<>> /\ i + BATCH_SIZE >= data[cur])
  /\ UNCHANGED <<batches, targeted, retargeted>>

\* a variant of EncoderError: the 'error' handler resolves the batch's promise
EncoderErrorResolves ==
  /\ pc = "encoding"
  /\ encFailed' = TRUE
  /\ pc' = "afterBatch"
  /\ UNCHANGED <<jvars, progress, disk, cur, tmpIn, previousBatchTmpFile,
                 currentBatchOutputTmpFile, currentVideoPath, allPngPaths,
                 generated, pending, i, accumulatedProgress, events, outcome,
                 resultBase64, lastError, orphans, inflight, encStarted, encOk,
                 lastPercent, delFailed>>
  /\ UNCHANGED pvars
  /\ UNCHANGED dvars

\* the encoder's 'error' event: runFfmpegBatch rejects
EncoderError ==
  /\ pc = "encoding"
  /\ encFailed' = TRUE
  /\ Throw("encoder")
  /\ UNCHANGED <<jvars, progress, disk, cur, tmpIn, previousBatchTmpFile,
                 currentBatchOutputTmpFile, currentVideoPath, allPngPaths,
                 generated, pending, i, accumulatedProgress, events,
                 resultBase64, orphans, inflight, encStarted, encOk,
                 lastPercent, delFailed>>
  /\ UNCHANGED pvars
  /\ UNCHANGED dvars
\* the step after a batch with the in-loop cleanup called on the output of
\* the batch that has just ended
AfterBatchCleansCurrent(ok) ==
  /\ pc = "afterBatch"
  /\ accumulatedProgress' = accumulatedProgress + 100
  /\ currentBatchOutputTmpFile = None => ok
  /\ IF ok
     THEN /\ disk' = IF currentBatchOutputTmpFile = None THEN disk
                     ELSE Unlink(disk, currentBatchOutputTmpFile)
          /\ currentVideoPath' = currentBatchOutputTmpFile
          /\ previousBatchTmpFile' = currentBatchOutputTmpFile
          /\ i' = i + BATCH_SIZE
          /\ pc' = "loop"
          /\ UNCHANGED <<outcome, lastError, delFailed>>
     ELSE /\ Throw("io")
          /\ delFailed' = TRUE
          /\ UNCHANGED <<disk, currentVideoPath, previousBatchTmpFile, i>>
  /\ UNCHANGED <<jvars, progress, cur, tmpIn, currentBatchOutputTmpFile,
                 allPngPaths, generated, pending, events, resultBase64,
                 orphans, inflight, encStarted, encOk, encFailed,
                 lastPercent>>
  /\ Targeting(IF currentBatchOutputTmpFile = None THEN {} ELSE {currentBatchOutputTmpFile})
  /\ UNCHANGED <<batches, lateWrites>>
  /\ UNCHANGED pvars

\* a variant of AfterBatch: the next batch reads the same input again
AfterBatchKeepsInput(ok) ==
  /\ pc = "afterBatch"
  /\ accumulatedProgress' = accumulatedProgress + 100
  /\ previousBatchTmpFile = None => ok
  /\ IF ok
     THEN /\ disk' = IF previousBatchTmpFile = None THEN disk
                     ELSE Unlink(disk, previousBatchTmpFile)
          /\ currentVideoPath' = currentVideoPath
          /\ previousBatchTmpFile' = currentBatchOutputTmpFile
          /\ i' = i + BATCH_SIZE
          /\ pc' = "loop"
          /\ UNCHANGED <<outcome, lastError, delFailed>>
     ELSE /\ Throw("io")
          /\ delFailed' = TRUE
          /\ UNCHANGED <<disk, currentVideoPath, previousBatchTmpFile, i>>
  /\ UNCHANGED <<jvars, progress, cur, tmpIn, currentBatchOutputTmpFile,
                 allPngPaths, generated, pending, events, resultBase64,
                 orphans, inflight, encStarted, encOk, encFailed,
                 lastPercent>>
  /\ Targeting(IF previousBatchTmpFile = None THEN {} ELSE {previousBatchTmpFile})
  /\ UNCHANGED <<batches, lateWrites>>
  /\ UNCHANGED pvars

\* after runFfmpegBatch: the superseded batch output is cleaned up and the
\* batch's output becomes the next input
AfterBatch(ok) ==
  /\ pc = "afterBatch"
  /\ accumulatedProgress' = accumulatedProgress + 100
  /\ previousBatchTmpFile = None => ok
  /\ IF ok
     THEN /\ disk' = IF previousBatchTmpFile = None THEN disk
                     ELSE Unlink(disk, previousBatchTmpFile)
          /\ currentVideoPath' = currentBatchOutputTmpFile
          /\ previousBatchTmpFile' = currentBatchOutputTmpFile
          /\ i' = i + BATCH_SIZE
          /\ pc' = "loop"
          /\ UNCHANGED <<outcome, lastError, delFailed>>
     ELSE /\ Throw("io")
          /\ delFailed' = TRUE
          /\ UNCHANGED <<disk, currentVideoPath, previousBatchTmpFile, i>>
  /\ UNCHANGED <<jvars, progress, cur, tmpIn, currentBatchOutputTmpFile,
                 allPngPaths, generated, pending, events, resultBase64,
                 orphans, inflight, encStarted, encOk, encFailed,
                 lastPercent>>
  /\ Targeting(IF previousBatchTmpFile = None THEN {} ELSE {previousBatchTmpFile})
  /\ UNCHANGED <<batches, lateWrites>>
  /\ UNCHANGED pvars

\* fs.readFile(currentVideoPath)
ReadResult(ok) ==
  /\ pc = "read"
  /\ IF ok /\ Exists(currentVideoPath)
     THEN /\ resultBase64' = <<disk[currentVideoPath]>>
          /\ pc' = "final100"
          /\ UNCHANGED <<outcome, lastError>>
     ELSE /\ Throw("io")
          /\ UNCHANGED resultBase64
  /\ UNCHANGED <<jvars, progress, disk, cur, tmpIn, previousBatchTmpFile,
                 currentBatchOutputTmpFile, currentVideoPath, allPngPaths,
                 generated, pending, i, accumulatedProgress, events,
                 orphans, inflight, encStarted, encOk, encFailed,
                 lastPercent, delFailed>>
  /\ UNCHANGED pvars
  /\ UNCHANGED dvars

\* await job.updateProgress(100); return resultBase64
UpdateProgress100 ==
  /\ pc = "final100"
  /\ PipeDrained
  /\ progress' = [progress EXCEPT ![cur] = 100 * Den(cur)]
  /\ outcome' = "return"
  /\ pc' = "finally"
  /\ UNCHANGED <<jvars, disk, cur, tmpIn, previousBatchTmpFile,
                 currentBatchOutputTmpFile, currentVideoPath, allPngPaths,
                 generated, pending, i, accumulatedProgress, events,
                 resultBase64, lastError, orphans, inflight,
                 encStarted, encOk, encFailed,
                 lastPercent, delFailed>>
  /\ UNCHANGED pvars
  /\ UNCHANGED dvars

\* an exception inside the finally block: it ends the execution
ThrowInFinally ==
  /\ outcome' = "throw"
  /\ lastError' = "io"
  /\ pc' = "ended"

\* finally: await tmpIn.cleanup()
CleanupTmpIn(ok) ==
  /\ pc = "finally"
  /\ IF ok
     THEN /\ disk' = Unlink(disk, tmpIn)
          /\ pc' = "finally2"
          /\ UNCHANGED <<outcome, lastError, delFailed>>
     ELSE /\ ThrowInFinally
          /\ delFailed' = TRUE
          /\ UNCHANGED disk
  /\ UNCHANGED <<jvars, progress, cur, tmpIn, previousBatchTmpFile,
                 currentBatchOutputTmpFile, currentVideoPath, allPngPaths,
                 generated, pending, i, accumulatedProgress, events,
                 resultBase64, orphans, inflight, encStarted, encOk, encFailed,
                 lastPercent>>
  /\ Targeting({tmpIn})
  /\ UNCHANGED <<batches, lateWrites>>
  /\ UNCHANGED pvars

\* finally: if (previousBatchTmpFile) await previousBatchTmpFile.cleanup()
CleanupPrevious(ok) ==
  /\ pc = "finally2"
  /\ previousBatchTmpFile = None => ok
  /\ IF ok
     THEN /\ disk' = IF previousBatchTmpFile = None THEN disk
                     ELSE Unlink(disk, previousBatchTmpFile)
          /\ pc' = "finally3"
          /\ UNCHANGED <<outcome, lastError, delFailed>>
     ELSE /\ ThrowInFinally
          /\ delFailed' = TRUE
          /\ UNCHANGED disk
  /\ UNCHANGED <<jvars, progress, cur, tmpIn, previousBatchTmpFile,
                 currentBatchOutputTmpFile, currentVideoPath, allPngPaths,
                 generated, pending, i, accumulatedProgress, events,
                 resultBase64, orphans, inflight, encStarted, encOk, encFailed,
                 lastPercent>>
  /\ Targeting(IF previousBatchTmpFile = None THEN {} ELSE {previousBatchTmpFile})
  /\ UNCHANGED <<batches, lateWrites>>
  /\ UNCHANGED pvars

\* finally: every path of allPngPaths is unlinked, a failure is only logged
\* (bad: the path whose unlink fails, or None)
CleanupPngs(bad) ==
  /\ pc = "finally3"
  /\ bad \in {None} \cup Range(allPngPaths)
  /\ disk' = UnlinkAll(disk, Range(allPngPaths) \ {bad})
  /\ delFailed' = (delFailed \/ bad # None)
  /\ pc' = "ended"
  /\ UNCHANGED <<jvars, progress, cur, tmpIn, previousBatchTmpFile,
                 currentBatchOutputTmpFile, currentVideoPath, allPngPaths,
                 generated, pending, i, accumulatedProgress, events, outcome,
                 resultBase64, lastError, orphans, inflight,
                 encStarted, encOk, encFailed, lastPercent>>
  /\ Targeting(Range(allPngPaths))
  /\ UNCHANGED <<batches, lateWrites>>
  /\ UNCHANGED pvars

PngPaths == {Path(j, a, "png", k) : j \in JobIds, a \in 1 .. Attempts, k \in 1 .. MaxSubs}

Next ==
  \/ \E m \in 0 .. MaxSubs : Submit(1, m)
  \/ \E j \in JobIds : MoveToActive(j)
  \/ \E j \in JobIds : PromoteDelayed(j)
  \/ MoveToCompleted
  \/ MoveToFailed
  \/ UpdateProgress0
  \/ \E ok \in BOOLEAN : Setup(ok)
  \/ \E r \in {"ok", "io", "probe"} : WriteInput(r)
  \/ StartRasterizations
  \/ \E k \in 1 .. MaxSubs : RasterOk(k)
  \/ \E k \in 1 .. MaxSubs, leaves \in BOOLEAN : RasterFail(k, leaves)
  \/ \E f \in PngPaths, ok \in BOOLEAN : OrphanSettle(f, ok)
  \/ PngsDone
  \/ LoopExit
  \/ \E ok \in BOOLEAN : BatchAlloc(ok)
  \/ RunFfmpegBatch
  \/ \E percent \in Percents : EncoderProgress(percent)
  \/ ApplyProgress
  \/ EncoderEnd
  \/ EncoderError
  \/ \E ok \in BOOLEAN : AfterBatch(ok)
  \/ \E ok \in BOOLEAN : ReadResult(ok)
  \/ UpdateProgress100
  \/ \E ok \in BOOLEAN : CleanupTmpIn(ok)
  \/ \E ok \in BOOLEAN : CleanupPrevious(ok)
  \/ \E bad \in {None} \cup PngPaths : CleanupPngs(bad)

\* One job, with any number of sub-cues, through the worker.
Spec == Init /\ [][Next]_vars

\* Several jobs, each without sub-cues, through the same worker and queue,
\* with the clock that the retention of finished jobs reads.
NextQueue ==
  \/ \E j \in JobIds : Submit(j, 0)
  \/ \E j \in JobIds : MoveToActive(j)
  \/ \E j \in JobIds : PromoteDelayed(j)
  \/ Tick
  \/ MoveToCompleted
  \/ MoveToFailed
  \/ UpdateProgress0
  \/ \E ok \in BOOLEAN : Setup(ok)
  \/ \E r \in {"ok", "io", "probe"} : WriteInput(r)
  \/ StartRasterizations
  \/ PngsDone
  \/ LoopExit
  \/ \E ok \in BOOLEAN : ReadResult(ok)
  \/ UpdateProgress100
  \/ \E ok \in BOOLEAN : CleanupTmpIn(ok)
  \/ CleanupPrevious(TRUE)
  \/ CleanupPngs(None)

SpecQueue == Init /\ [][NextQueue]_vars

\* Two jobs, each without sub-cues or with one full batch of them, through
\* every step of the worker: what one job's execution does to the record of
\* the other.
TwoJobs == {1, 2}

NextTwo ==
  \/ \E j \in TwoJobs, m \in {0, BATCH_SIZE} : Submit(j, m)
  \/ \E j \in JobIds : MoveToActive(j)
  \/ \E j \in JobIds : PromoteDelayed(j)
  \/ MoveToCompleted
  \/ MoveToFailed
  \/ UpdateProgress0
  \/ \E ok \in BOOLEAN : Setup(ok)
  \/ \E r \in {"ok", "io", "probe"} : WriteInput(r)
  \/ StartRasterizations
  \/ \E k \in 1 .. MaxSubs : RasterOk(k)
  \/ \E k \in 1 .. MaxSubs, leaves \in BOOLEAN : RasterFail(k, leaves)
  \/ \E f \in PngPaths, ok \in BOOLEAN : OrphanSettle(f, ok)
  \/ PngsDone
  \/ LoopExit
  \/ \E ok \in BOOLEAN : BatchAlloc(ok)
  \/ RunFfmpegBatch
  \/ \E percent \in Percents : EncoderProgress(percent)
  \/ ApplyProgress
  \/ EncoderEnd
  \/ EncoderError
  \/ \E ok \in BOOLEAN : AfterBatch(ok)
  \/ \E ok \in BOOLEAN : ReadResult(ok)
  \/ UpdateProgress100
  \/ \E ok \in BOOLEAN : CleanupTmpIn(ok)
  \/ \E ok \in BOOLEAN : CleanupPrevious(ok)
  \/ \E bad \in {None} \cup PngPaths : CleanupPngs(bad)

SpecTwo == Init /\ [][NextTwo]_vars

(***************************************************************************)
(* One export request (exportWithSubs): the input schema, the filter graph *)
(* that buildOverlayFilterComplex builds for its cues, and the frames the  *)
(* encoder composes with that graph.                                       *)
(***************************************************************************)
\* instants, in seconds; a cue may carry a negative start
Times == -1 .. MaxT

\* cues, as far as the schema and the filter graph read them
Cues == [start : Times, end : Times]

CueLists == UNION {[1 .. n -> Cues] : n \in 0 .. MaxCues}

\* z.enum(['bottom', 'top', 'middle', 'custom'])
Positions == {"bottom", "top", "middle", "custom"}

\* an optional number: None when the field is absent
OptionalNumbers == {None, <<10>>}

\* styles, as far as the schema and the filter graph read them; "left" is not
\* a position of the schema
Styles ==
  {st \in [position : Positions \cup {"left"},
           customX : OptionalNumbers, customY : OptionalNumbers] :
     st.position = "custom" \/ (st.customX = None /\ st.customY = None)}

\* the heights of the input video that getVideoSize may report
VideoHeights == {1080}

\* the zod input schema of exportWithSubs: subs is an array of cues with
\* numbers as start and end, position is one of the enum, customX and customY
\* are optional
InputSchema(req) ==
  /\ \A k \in DOMAIN req.subs : req.subs[k].start \in Int /\ req.subs[k].end \in Int
  /\ req.style.position \in Positions
  /\ req.style.customX \in OptionalNumbers
  /\ req.style.customY \in OptionalNumbers

\* Math.round of num / den, for den > 0
Round(num, den) == (2 * num + den) \div (2 * den)

\* the x of the overlays
OverlayX(style, videoHeight) ==
  IF style.position = "custom" /\ style.customX # None /\ style.customY # None
  THEN <<Round(style.customX[1] * videoHeight, 500)>>
  ELSE "(main_w-overlay_w)/2"

\* the y of the overlays
OverlayY(style, videoHeight) ==
  IF style.position = "custom" /\ style.customX # None /\ style.customY # None
  THEN <<Round(style.customY[1] * videoHeight, 500)>>
  ELSE CASE style.position = "top" -> "50"
         [] style.position = "middle" -> "(main_h-overlay_h)/2"
         [] OTHER -> "main_h-overlay_h-50"

\* the outcome of the graph builder when its length check throws: no graph
Thrown == [threw |-> TRUE, graph |-> <<>>]

\* its outcome when it returns the graph g
Returned(g) == [threw |-> FALSE, graph |-> g]

\* the labels of the graph: '0:v' and '<k>:v' are input streams, 'v<k>' is
\* the output of stage k
InputStream(k) == <<":v", k>>
StageOutput(k) == <<"v", k>>

\* a graph whose stages all read the base video
buildOverlayFilterComplexOnBase(subtitles, pngPaths, style, videoHeight) ==
  IF FilterComplexThrows(Len(subtitles), Len(pngPaths)) THEN Thrown
  ELSE Returned([k \in DOMAIN subtitles |->
          [main |-> InputStream(0), overlay |-> InputStream(k),
           x |-> OverlayX(style, videoHeight), y |-> OverlayY(style, videoHeight),
           from |-> subtitles[k].start, to |-> subtitles[k].end,
           out |-> StageOutput(k)]])

\* buildOverlayFilterComplex: it throws when the two lists differ in length;
\* else one overlay stage per cue, in cue order: stage k overlays the stream
\* of image input k on prevTag, enabled by between(t, sub.start, sub.end), and
\* names its output v<k>
buildOverlayFilterComplex(subtitles, pngPaths, style, videoHeight) ==
  IF FilterComplexThrows(Len(subtitles), Len(pngPaths)) THEN Thrown
  ELSE Returned([k \in DOMAIN subtitles |->
          [main |-> IF k = 1 THEN InputStream(0) ELSE StageOutput(k - 1),
           overlay |-> InputStream(k),
           x |-> OverlayX(style, videoHeight), y |-> OverlayY(style, videoHeight),
           from |-> subtitles[k].start, to |-> subtitles[k].end,
           out |-> StageOutput(k)]])

\* the encoder's expression between(x, min, max): 1 when min <= x <= max
Between(x, min, max) == min <= x /\ x <= max

\* a request arrives
InitOverlay ==
  /\ InitQueue
  /\ request \in [subs : CueLists, style : Styles, videoHeight : VideoHeights]
  /\ phase = "received"
  /\ filterComplex = <<>>
  /\ frameT = 0
  /\ shown = {}
  /\ NoCall
  /\ NoExpansion
  /\ NoBatch
  /\ NoLayout
  /\ NoOther

\* exportWithSubs: the input is parsed against the schema
ExportWithSubs ==
  /\ phase = "received"
  /\ phase' = IF InputSchema(request) THEN "accepted" ELSE "rejected"
  /\ UNCHANGED <<nvars, svars, xvars, evars, bvars, lvars, request, filterComplex, frameT, shown>>

\* the cues are rendered and the filter graph is built
BuildFilterComplex ==
  /\ phase = "accepted"
  /\ filterComplex' =
       buildOverlayFilterComplex(request.subs, [k \in DOMAIN request.subs |-> k],
                                 request.style, request.videoHeight).graph
  /\ phase' = "built"
  /\ UNCHANGED <<nvars, svars, xvars, evars, bvars, lvars, request, frameT, shown>>

\* the encoder composes the frame with timestamp ts
ComposeFrame(ts) ==
  /\ phase \in {"built", "composed"}
  /\ frameT' = ts
  /\ shown' = {k \in DOMAIN filterComplex :
                 Between(ts, filterComplex[k].from, filterComplex[k].to)}
  /\ phase' = "composed"
  /\ UNCHANGED <<nvars, svars, xvars, evars, bvars, lvars, request, filterComplex>>

NextOverlay ==
  \/ ExportWithSubs
  \/ BuildFilterComplex
  \/ \E ts \in 0 .. MaxT : ComposeFrame(ts)

SpecOverlay == InitOverlay /\ [][NextOverlay]_vars

(***************************************************************************)
(* One call of runFfmpegBatch (queue.ts:199-250) with any lists of sub-cues *)
(* and of image paths: the graph is built first, then the command gets the  *)
(* video and the images as inputs, the graph and the -map option, and the   *)
(* encoder is spawned by save().                                           *)
(***************************************************************************)
\* the image paths of a batch
PngLists == UNION {[1 .. n -> {"png"}] : n \in 0 .. MaxCues}

\* runFfmpegBatch is called
InitBatch ==
  /\ InitQueue
  /\ NoRequest
  /\ NoCall
  /\ NoExpansion
  /\ NoLayout
  /\ NoOther
  /\ batchArgs \in [subtitles : CueLists, pngPaths : PngLists,
                     style : {st \in Styles : st.position \in Positions},
                     videoHeight : VideoHeights]
  /\ ffmpegCommand = None
  /\ batchPhase = "called"

\* '-map': the output of the last stage, or the video when there is no image
MapVideoStreamName(pngPaths) ==
  IF Len(pngPaths) > 0 THEN StageOutput(Len(pngPaths)) ELSE InputStream(0)

\* the body of runFfmpegBatch up to save(): a throw of the graph builder
\* rejects the call before any command exists
RunFfmpegBatchBody ==
  /\ batchPhase = "called"
  /\ LET g == buildOverlayFilterComplex(batchArgs.subtitles, batchArgs.pngPaths,
                                        batchArgs.style, batchArgs.videoHeight)
     IN IF g.threw
        THEN /\ batchPhase' = "thrown"
             /\ UNCHANGED ffmpegCommand
        ELSE /\ batchPhase' = "spawned"
             /\ ffmpegCommand' =
                  [inputs |-> <<"inputVideoPath">> \o batchArgs.pngPaths,
                   complexFilter |-> g.graph,
                   map |-> MapVideoStreamName(batchArgs.pngPaths)]
  /\ UNCHANGED <<nvars, svars, ovars, xvars, evars, lvars, batchArgs>>

\* the encoder ends: 'end' resolves, 'error' rejects
EncoderSettles(ok) ==
  /\ batchPhase = "spawned"
  /\ batchPhase' = IF ok THEN "resolved" ELSE "rejected"
  /\ UNCHANGED <<nvars, svars, ovars, xvars, evars, lvars, batchArgs, ffmpegCommand>>

NextBatch ==
  \/ RunFfmpegBatchBody
  \/ \E ok \in BOOLEAN : EncoderSettles(ok)

SpecBatch == InitBatch /\ [][NextBatch]_vars

(***************************************************************************)
(* splitSubtitleIntoWords. Instants are counted in half milliseconds, so    *)
(* that two instants can be less than 0.001 apart (0.001 is Epsilon); a     *)
(* sub-cue carries its start and end as numerators over its field den, so  *)
(* that totalDuration / words.length is exact.                             *)
(***************************************************************************)
Ms == 0 .. MaxMs

\* the 0.001 of Math.max(startTime + 0.001, endTime), in half milliseconds
Epsilon == 2

WordTimestamps == [word : {"w"}, start : Ms, end : Ms]

WordLists == UNION {[1 .. n -> WordTimestamps] : n \in 0 .. MaxWords}

\* a text, as the words between its whitespace
Texts == UNION {[1 .. n -> {"w"}] : n \in 0 .. MaxWords}

\* cues: hasWords tells a words array from an absent one
Subtitles ==
  {c \in [id : {<<"c">>}, text : Texts, start : Ms, end : Ms,
          hasWords : BOOLEAN, words : WordLists] :
     ~c.hasWords => c.words = <<>>}

EffectTypes == {"none", "cumulativePopOn", "wordByWord"}

Max(a, b) == IF a >= b THEN a ELSE b

\* words.slice(0, n).map(w => w.word).join(' ')
JoinWords(words, n) == [k \in 1 .. n |-> words[k].word]

\* { ...subtitle, originalId: subtitle.id }
WithOriginalId(sub) ==
  [id |-> sub.id, originalId |-> sub.id, text |-> sub.text,
   start |-> sub.start, end |-> sub.end, den |-> 1,
   hasWords |-> sub.hasWords, words |-> sub.words]

\* a variant of WordByWordTimed: each word is shown until the next one starts
WordByWordTimedClosingGaps(sub) ==
  [k \in 1 .. Len(sub.words) |->
     [id |-> sub.id \o <<"-word-", k - 1>>, originalId |-> sub.id,
      text |-> <<sub.words[k].word>>,
      start |-> sub.words[k].start,
      end |-> IF k < Len(sub.words) THEN sub.words[k + 1].start ELSE sub.words[k].end,
      den |-> 1,
      hasWords |-> TRUE, words |-> <<sub.words[k]>>]]

\* the branch for 'wordByWord' with word timestamps: one sub-cue per word
WordByWordTimed(sub) ==
  [k \in 1 .. Len(sub.words) |->
     [id |-> sub.id \o <<"-word-", k - 1>>, originalId |-> sub.id,
      text |-> <<sub.words[k].word>>,
      start |-> sub.words[k].start, end |-> sub.words[k].end, den |-> 1,
      hasWords |-> TRUE, words |-> <<sub.words[k]>>]]

\* finalEndTime without the limit Math.min(subtitle.end, ...)
FinalEndTimeUnclamped(sub, k) ==
  LET endTime == IF k < Len(sub.words) THEN sub.words[k + 1].start ELSE sub.end
  IN Max(sub.words[k].start + Epsilon, endTime)

\* finalEndTime of the cumulative step of word k (1-based)
FinalEndTime(sub, k) ==
  LET endTime == IF k < Len(sub.words) THEN sub.words[k + 1].start ELSE sub.end
  IN Min(sub.end, Max(sub.words[k].start + Epsilon, endTime))

\* the cumulative steps of words k .. Len(words) that are kept, in order
RECURSIVE CumulativeFrom(_, _)
CumulativeFrom(sub, k) ==
  IF k > Len(sub.words) THEN <<>>
  ELSE LET step == [id |-> sub.id \o <<"-cumulative-", k - 1>>, originalId |-> sub.id,
                    text |-> JoinWords(sub.words, k),
                    start |-> sub.words[k].start, end |-> FinalEndTime(sub, k),
                    den |-> 1,
                    hasWords |-> TRUE, words |-> SubSeq(sub.words, 1, k)]
       IN IF FinalEndTime(sub, k) > sub.words[k].start
          THEN <<step>> \o CumulativeFrom(sub, k + 1)
          ELSE CumulativeFrom(sub, k + 1)

\* the cumulative branch without the fallback to the cue itself
CumulativeTimedNoFallback(sub) == CumulativeFrom(sub, 1)

\* the branch for 'cumulativePopOn' with word timestamps
CumulativeTimed(sub) ==
  IF CumulativeFrom(sub, 1) = <<>> THEN <<WithOriginalId(sub)>> ELSE CumulativeFrom(sub, 1)

\* subtitle.text.trim().split(/\s+/): an empty text gives one empty word
SplitText(text) == IF text = <<>> THEN <<"">> ELSE text

\* the even split with the offsets index * wordDuration counted from 0
UntimedFromZero(sub, effect) ==
  LET words == SplitText(sub.text)
      n == Len(words)
      totalDuration == sub.end - sub.start
      \* wordDuration, times n
      wordDurationN == IF totalDuration > 0 THEN totalDuration ELSE 0
  IN IF n = 0 THEN <<WithOriginalId(sub)>>
     ELSE IF effect = "cumulativePopOn"
     THEN [k \in 1 .. n |->
             [id |-> sub.id \o <<"-word-", k - 1>>, originalId |-> sub.id,
              text |-> SubSeq(words, 1, k),
              start |-> (k - 1) * wordDurationN,
              end |-> IF k = n THEN sub.end * n
                      ELSE sub.start * n + k * wordDurationN,
              den |-> n, hasWords |-> FALSE, words |-> <<>>]]
     ELSE IF effect = "wordByWord"
     THEN [k \in 1 .. n |->
             [id |-> sub.id \o <<"-word-", k - 1>>, originalId |-> sub.id,
              text |-> <<words[k]>>,
              start |-> (k - 1) * wordDurationN,
              end |-> sub.start * n + k * wordDurationN,
              den |-> n, hasWords |-> FALSE, words |-> <<>>]]
     ELSE <<WithOriginalId(sub)>>

\* the branches without word timestamps: the cue's time is shared out evenly
Untimed(sub, effect) ==
  LET words == SplitText(sub.text)
      n == Len(words)
      totalDuration == sub.end - sub.start
      \* wordDuration, times n
      wordDurationN == IF totalDuration > 0 THEN totalDuration ELSE 0
  IN IF n = 0 THEN <<WithOriginalId(sub)>>
     ELSE IF effect = "cumulativePopOn"
     THEN [k \in 1 .. n |->
             [id |-> sub.id \o <<"-word-", k - 1>>, originalId |-> sub.id,
              text |-> SubSeq(words, 1, k),
              start |-> sub.start * n + (k - 1) * wordDurationN,
              end |-> IF k = n THEN sub.end * n
                      ELSE sub.start * n + k * wordDurationN,
              den |-> n, hasWords |-> FALSE, words |-> <<>>]]
     ELSE IF effect = "wordByWord"
     THEN [k \in 1 .. n |->
             [id |-> sub.id \o <<"-word-", k - 1>>, originalId |-> sub.id,
              text |-> <<words[k]>>,
              start |-> sub.start * n + (k - 1) * wordDurationN,
              end |-> sub.start * n + k * wordDurationN,
              den |-> n, hasWords |-> FALSE, words |-> <<>>]]
     ELSE <<WithOriginalId(sub)>>

splitSubtitleIntoWords(sub, effect) ==
  IF effect = "wordByWord" /\ sub.hasWords /\ Len(sub.words) > 0
  THEN WordByWordTimed(sub)
  ELSE IF effect = "cumulativePopOn" /\ sub.hasWords /\ Len(sub.words) > 0
  THEN CumulativeTimed(sub)
  ELSE Untimed(sub, effect)

\* a call with some cue and some effect
InitSplit ==
  /\ InitQueue
  /\ NoRequest
  /\ NoExpansion
  /\ NoBatch
  /\ NoLayout
  /\ NoOther
  /\ subtitle \in Subtitles
  /\ effectType \in EffectTypes
  /\ wordSubtitles = <<>>
  /\ returned = FALSE

\* the call returns
SplitSubtitleIntoWords ==
  /\ ~returned
  /\ wordSubtitles' = splitSubtitleIntoWords(subtitle, effectType)
  /\ returned' = TRUE
  /\ UNCHANGED <<nvars, svars, ovars, evars, bvars, lvars, subtitle, effectType>>

NextSplit == SplitSubtitleIntoWords

SpecSplit == InitSplit /\ [][NextSplit]_vars

(***************************************************************************)
(* The expansion loop of processVideoExport (queue.ts:277-306): every cue   *)
(* of the job is split with the style's effect and the sub-cues are pushed  *)
(* in order; with effect 'none' the cues are pushed as they are.  A sub-cue *)
(* id is the cue id followed by '-word-<index>' or '-cumulative-<index>':   *)
(* ids are sequences of such parts, and a template string concatenates.     *)
(***************************************************************************)
\* the ids a client may give to its cues
CueIds == {<<"c">>, <<"d">>, <<"c", "-word-", 0>>, <<"c", "-cumulative-", 0>>}

\* the cues of a job: cues from 0 with at most one word, under some id
JobCues ==
  {[c EXCEPT !.id = cid] :
     c \in {d \in Subtitles :
              /\ d.start = 0
              /\ Len(d.text) <= 1
              /\ Len(d.words) <= 1
              /\ \A k \in 1 .. Len(d.words) : d.words[k].end = d.words[k].start},
     cid \in CueIds}

\* a cue pushed as it is: it has no originalId
Unsplit(sub) ==
  [id |-> sub.id, originalId |-> None, text |-> sub.text,
   start |-> sub.start, end |-> sub.end, den |-> 1,
   hasWords |-> sub.hasWords, words |-> sub.words]

\* the sub-cues pushed for one cue
SubCuesOf(sub, effect) ==
  IF effect = "none" THEN <<Unsplit(sub)>> ELSE splitSubtitleIntoWords(sub, effect)

\* the sub-cues pushed for the cues from index k on
RECURSIVE ExpandFrom(_, _, _)
ExpandFrom(cues, effect, k) ==
  IF k > Len(cues) THEN <<>>
  ELSE SubCuesOf(cues[k], effect) \o ExpandFrom(cues, effect, k + 1)

\* the index of the cue of each of them
RECURSIVE SourcesFrom(_, _, _)
SourcesFrom(cues, effect, k) ==
  IF k > Len(cues) THEN <<>>
  ELSE [n \in 1 .. Len(SubCuesOf(cues[k], effect)) |-> k]
         \o SourcesFrom(cues, effect, k + 1)

\* a job with two cues and some effect
InitExpand ==
  /\ InitQueue
  /\ NoRequest
  /\ NoCall
  /\ NoBatch
  /\ NoLayout
  /\ NoOther
  /\ subs \in [1 .. 2 -> JobCues]
  /\ styleEffect \in EffectTypes
  /\ processedSubsForFfmpeg = <<>>
  /\ expandedFrom = <<>>
  /\ expanded = FALSE

\* the loop over the cues
ExpandSubs ==
  /\ ~expanded
  /\ processedSubsForFfmpeg' = ExpandFrom(subs, styleEffect, 1)
  /\ expandedFrom' = SourcesFrom(subs, styleEffect, 1)
  /\ expanded' = TRUE
  /\ UNCHANGED <<nvars, svars, ovars, xvars, bvars, lvars, subs, styleEffect>>

NextExpand == ExpandSubs

SpecExpand == InitExpand /\ [][NextExpand]_vars

(***************************************************************************)
(* calculateSubtitleLayoutMetrics (part_004:79-177) and the font cache     *)
(* (part_004:38-77).  Lengths are in hundredths of a pixel, which holds    *)
(* every value of the computation exactly for the inputs below.  A text is *)
(* the list of its explicit lines, each the list rawLine.split(' ') of its *)
(* words; a line of the result is the list of the words it joins with ' '. *)
(* ctx.measureText is a table: a width per word and font, and the width of *)
(* a space.                                                                *)
(***************************************************************************)
Unit == 100

\* const padding = 24
padding == 24

\* style.fontSize of the calls
StyleFontSize == 16

\* videoWidth of the calls
LayoutVideoWidth == 1000

\* videoHeight of the calls: 1080 gives a scaleFactor of 1.44
LayoutVideoHeights == {750, 1080}

DEFAULT_FONT_FAMILY == "Arial"

\* the families of FONT_MAP (two of them)
FONT_MAP == {"Arial", "Georgia"}

\* style.fontFamily of the calls: "Papyrus" has no file mapping
FontFamilies == {"Arial", "Georgia", "Papyrus"}

\* the words of a text: the empty word comes from an empty text or from two
\* spaces in a row, "a" is 300.5 px wide in Arial, "W" is wider than any line
LayoutWords == {"", "a", "W"}

LayoutSegments == UNION {[1 .. n -> LayoutWords] : n \in 1 .. MaxLineWords}

\* text.split(/\\N|\\n|\n/) gives at least one explicit line
LayoutTexts == UNION {[1 .. n -> LayoutSegments] : n \in 1 .. MaxSegments}

\* ctx.measureText(word).width under a font; "system" is the font that the
\* canvas falls back to when the family is not available to it
MeasureWord(word, font) ==
  LET arial == CASE word = "" -> 0 [] word = "a" -> 30050 [] OTHER -> 90000
  IN CASE font = "Arial" -> arial
       [] font = "Georgia" -> (arial * 11) \div 10
       [] OTHER -> (arial * 9) \div 10

\* the width of one space
MeasureSpace(font) == IF font = "Arial" THEN 9900 ELSE 10000

\* ctx.measureText(line).width of the words joined with ' '
RECURSIVE MeasureText(_, _)
MeasureText(line, font) ==
  IF line = <<>> THEN 0
  ELSE IF Len(line) = 1 THEN MeasureWord(line[1], font)
  ELSE MeasureText(SubSeq(line, 1, Len(line) - 1), font)
         + MeasureSpace(font) + MeasureWord(line[Len(line)], font)

\* a line that is the empty string, which the code tests as false
IsEmptyLine(line) == \A k \in 1 .. Len(line) : line[k] = "" /\ Len(line) = 1

\* const maxTextWidth = videoWidth * 0.8
MaxTextWidth == LayoutVideoWidth * 80

\* a wrapping that starts a new line with every word
RECURSIVE WrapEveryWord(_, _, _, _)
WrapEveryWord(words, k, currentLine, font) ==
  IF k > Len(words)
  THEN IF IsEmptyLine(currentLine) THEN <<>> ELSE <<currentLine>>
  ELSE IF ~IsEmptyLine(currentLine)
       THEN <<currentLine>> \o WrapEveryWord(words, k + 1, <<words[k]>>, font)
       ELSE WrapEveryWord(words, k + 1, <<words[k]>>, font)

\* the inner loop over the words of one explicit line, from word k on, and
\* the push of the last line
RECURSIVE Wrap(_, _, _, _)
Wrap(words, k, currentLine, font) ==
  IF k > Len(words)
  THEN IF IsEmptyLine(currentLine) THEN <<>> ELSE <<currentLine>>
  ELSE LET testLine == IF IsEmptyLine(currentLine) THEN <<words[k]>>
                       ELSE Append(currentLine, words[k])
       IN IF MeasureText(testLine, font) > MaxTextWidth /\ ~IsEmptyLine(currentLine)
          THEN <<currentLine>> \o Wrap(words, k + 1, <<words[k]>>, font)
          ELSE Wrap(words, k + 1, testLine, font)

\* the outer loop over the explicit lines from index k on
RECURSIVE WrapAll(_, _, _)
WrapAll(rawLines, k, font) ==
  IF k > Len(rawLines) THEN <<>>
  ELSE Wrap(rawLines[k], 1, <<>>, font) \o WrapAll(rawLines, k + 1, font)

\* numbers that may be -Infinity: <<v>> is the number v
MinusInfinity == <<>>

\* Math.max(...widths): -Infinity for no width
RECURSIVE MaxOf(_)
MaxOf(widths) ==
  IF widths = <<>> THEN MinusInfinity
  ELSE LET rest == MaxOf(Tail(widths))
       IN IF rest = MinusInfinity THEN <<Head(widths)>>
          ELSE <<Max(Head(widths), rest[1])>>

\* x + c
Plus(x, c) == IF x = MinusInfinity THEN MinusInfinity ELSE <<x[1] + c>>

\* x % 2 === 0 ? x : x + 1 (x % 2 is NaN for -Infinity)
EvenOrPlusOne(x) ==
  IF x = MinusInfinity THEN MinusInfinity
  ELSE IF x[1] % (2 * Unit) = 0 THEN x ELSE <<x[1] + Unit>>

\* scaleFactor = (videoHeight / 500) / 1.5, fontSize in pixels
FontSize(videoHeight) == Max(1, Round(StyleFontSize * videoHeight, 750))

\* lineHeight = fontSize * 1.5
LineHeight(videoHeight) == FontSize(videoHeight) * 150

\* paddingScaled = padding * scaleFactor
PaddingScaled(videoHeight) == (padding * videoHeight * Unit) \div 750

\* loadAndRegisterFont: whether it returns true
FontLoads(fontFamily, registered, files) ==
  fontFamily \in registered \/ (fontFamily \in FONT_MAP /\ fontFamily \in files)

\* registeredFonts after loadAndRegisterFont
Registered(fontFamily, registered, files) ==
  IF FontLoads(fontFamily, registered, files) THEN registered \cup {fontFamily}
  ELSE registered

\* fontFamilyToUse
FontFamilyToUse(fontFamily, registered, files) ==
  IF FontLoads(fontFamily, registered, files) THEN fontFamily ELSE DEFAULT_FONT_FAMILY

\* The fonts the canvas of a call may measure with.  The canvas and its
\* context are created (lines 92-93) before loadAndRegisterFont runs (line
\* 104): a family registered before this call is available to the canvas; for
\* a family that this very call registers, node-canvas requires registerFont
\* before the canvas is created, so the canvas has the family or falls back;
\* an unregistered family falls back.
MeasuringFonts(fontFamily, registered, files) ==
  LET use == FontFamilyToUse(fontFamily, registered, files)
  IN IF use \in registered THEN {use}
     ELSE IF use \in Registered(fontFamily, registered, files) THEN {use, "system"}
     ELSE {"system"}

\* the metrics computed with the measuring font
LayoutMetrics(text, fontFamily, videoHeight, registered, files, font) ==
  LET lines == WrapAll(text, 1, font)
      widths == [k \in DOMAIN lines |-> Min(MeasureText(lines[k], font), MaxTextWidth)]
      textWidth == MaxOf(widths)
      textHeight == Len(lines) * LineHeight(videoHeight)
      paddingScaled == PaddingScaled(videoHeight)
  IN [lines |-> lines,
      lineMetrics |-> widths,
      textWidth |-> textWidth,
      textHeight |-> textHeight,
      boxWidth |-> EvenOrPlusOne(Plus(textWidth, 2 * paddingScaled)),
      boxHeight |-> EvenOrPlusOne(<<textHeight + 2 * paddingScaled>>),
      fontSize |-> FontSize(videoHeight),
      fontFamily |-> FontFamilyToUse(fontFamily, registered, files),
      lineHeight |-> LineHeight(videoHeight),
      paddingScaled |-> paddingScaled]

\* the module is loaded: loadAndRegisterFont(DEFAULT_FONT_FAMILY), line 74
ModuleLoaded ==
  registeredFonts = Registered(DEFAULT_FONT_FAMILY, {}, fontFiles)

\* a process whose calls with one text, in Arial, are observed
InitLayout ==
  /\ InitQueue /\ NoRequest /\ NoCall /\ NoExpansion /\ NoBatch /\ NoOther
  /\ layoutArgs \in [text : LayoutTexts, fontFamily : {DEFAULT_FONT_FAMILY},
                      videoHeight : LayoutVideoHeights]
  /\ fontFiles = FONT_MAP
  /\ ModuleLoaded
  /\ metrics = None
  /\ firstMetrics = None

\* a process whose calls with one font family are observed, with any set of
\* font files present
InitFonts ==
  /\ InitQueue /\ NoRequest /\ NoCall /\ NoExpansion /\ NoBatch /\ NoOther
  /\ layoutArgs \in [text : {<<(<<"a">>)>>, <<(<<"a", "a">>)>>},
                      fontFamily : FontFamilies,
                      videoHeight : LayoutVideoHeights]
  /\ fontFiles \in SUBSET FONT_MAP
  /\ ModuleLoaded
  /\ metrics = None
  /\ firstMetrics = None

\* calculateSubtitleLayoutMetrics is called with the observed arguments
CalculateSubtitleLayoutMetrics ==
  /\ \E font \in MeasuringFonts(layoutArgs.fontFamily, registeredFonts, fontFiles) :
       metrics' = <<LayoutMetrics(layoutArgs.text, layoutArgs.fontFamily,
                                  layoutArgs.videoHeight, registeredFonts,
                                  fontFiles, font)>>
  /\ firstMetrics' = IF firstMetrics = None THEN metrics' ELSE firstMetrics
  /\ registeredFonts' = Registered(layoutArgs.fontFamily, registeredFonts, fontFiles)
  /\ UNCHANGED <<nvars, svars, ovars, xvars, evars, bvars, layoutArgs, fontFiles>>

\* a layout call with another font family, by another rendering
OtherLayoutCall(fontFamily) ==
  /\ fontFamily # layoutArgs.fontFamily
  /\ registeredFonts' = Registered(fontFamily, registeredFonts, fontFiles)
  /\ registeredFonts' # registeredFonts
  /\ UNCHANGED <<nvars, svars, ovars, xvars, evars, bvars, layoutArgs, fontFiles,
                 metrics, firstMetrics>>

NextLayout == CalculateSubtitleLayoutMetrics

SpecLayout == InitLayout /\ [][NextLayout]_vars

NextFonts ==
  \/ CalculateSubtitleLayoutMetrics
  \/ \E f \in FontFamilies : OtherLayoutCall(f)

SpecFonts == InitFonts /\ [][NextFonts]_vars

(***************************************************************************)
(* Properties.                                                             *)
(***************************************************************************)
Terminal == {"completed", "failed"}

InFinally == pc \in {"finally", "finally2", "finally3", "ended"}

\* the files of kind `kind` that the execution in progress has on disk
OnDisk(kind) == {f \in DOMAIN disk : f[3] = kind}

\* C1: when an execution of processVideoExport that created its input temp
\* file has ended, by returning or by throwing, and no deletion it attempted
\* failed, none of the temporary files it created exists any more.
C1_NoTempFileAfterExecution ==
  (pc = "ended" /\ tmpIn # None /\ ~delFailed) => DOMAIN disk = {}

\* C2: when the encoder invocation of a batch failed, then at the end of the
\* attempt (no deletion having failed) no batch output video of the attempt
\* exists, the output allocated for the failing batch included.
C2_NoBatchOutputAfterEncoderFailure ==
  (pc = "ended" /\ encFailed /\ ~delFailed) => OnDisk("out") = {}

\* C3: when a rasterization failed, then once the attempt has ended and all
\* its rasterizations have settled, no PNG written by another rasterization
\* of the attempt exists.
C3_NoPngAfterRasterFailure ==
  (pc = "ended" /\ lastError = "raster" /\ orphans = {} /\ ~delFailed)
    => {f \in OnDisk("png") : disk[f] # "empty"} = {}

\* C4: once an encoder invocation has failed, no later batch is started, the
\* attempt is in its cleanup with a throw pending and no video read; an
\* attempt returns only after every batch was encoded, and a job is completed
\* only with the video that has every sub-cue burnt in, while a job that is
\* delayed or failed holds no result.
C4_BatchFailureAborts ==
  /\ encFailed => /\ InFinally
                  /\ outcome = "throw"
                  /\ resultBase64 = None
                  /\ encStarted = encOk + 1
  /\ outcome = "return" => /\ ~encFailed
                           /\ encOk = TotalBatches(data[cur])
                           /\ encStarted = encOk
                           /\ resultBase64 = <<(<<cur, data[cur]>>)>>
  /\ \A j \in JobIds :
       /\ status[j] = "completed" => returnvalue[j] = <<(<<j, data[j]>>)>>
       /\ status[j] \in {"delayed", "failed"} => returnvalue[j] = None

\* C4, its case: a batch failed after an earlier batch had been encoded, and
\* the attempt has ended.
C4_Witness == pc = "ended" /\ encFailed /\ encOk >= 1

\* C5: the processor is started only on a waiting job, which becomes active;
\* a job is started at most Attempts (3) times; a failed attempt below the
\* limit leaves the job to be started again, the job fails for good exactly
\* when its third attempt fails, and a completed or failed job is never
\* started again.
C5_ThreeAttempts ==
  [][\A j \in JobIds :
       /\ started'[j] # started[j] =>
            /\ started'[j] = started[j] + 1
            /\ started'[j] <= Attempts
            /\ status[j] = "waiting" /\ status'[j] = "active"
       /\ (status[j] = "active" /\ status'[j] = "failed") =>
            started[j] = Attempts /\ attemptsMade'[j] = Attempts
       /\ (status[j] = "active" /\ status'[j] # "active" /\ outcome = "throw"
           /\ started[j] < Attempts) => status'[j] = "delayed"
       /\ (status[j] = "delayed" /\ status'[j] # "delayed") => status'[j] = "waiting"
       /\ status[j] \in Terminal => started'[j] = started[j]
    ]_vars

\* C5, its case: a job has failed for good after its third start.
C5_Witness == \E j \in JobIds : status[j] = "failed" /\ started[j] = Attempts

\* C7: no write to a job's progress ever lowers it, callbacks, batch
\* boundaries and retry attempts included.
C7_ProgressNonDecreasing ==
  [][\A j \in JobIds : progress'[j] >= progress[j]]_vars

\* C8: the progress of a job that is completed or failed (or whose record was
\* removed after that) is never written again, and when a job becomes
\* completed or failed no progress write for it is still in flight.
C8_NoProgressWriteAfterTerminal ==
  [][\A j \in JobIds :
       /\ status[j] \in Terminal \cup {"removed"} => progress'[j] = progress[j]
       /\ status'[j] \in Terminal =>
            \A k \in 1 .. Len(inflight') : inflight'[k][1] # j
    ]_vars

\* C8, its case: a job is completed or failed with the progress that an
\* encoder callback wrote last, while the worker encodes the other job and a
\* progress write of that one is in flight.
C8_Witness ==
  \E j \in JobIds :
    /\ status[j] \in Terminal
    /\ progress[j] \notin {0, 100 * Den(j)}
    /\ pc = "encoding"
    /\ cur # j
    /\ inflight # <<>>

\* C9, as stated: a status changes only from waiting to active, from active
\* to completed or failed, or after a failed attempt from active (or failed)
\* back to waiting; the removal of a finished job's record apart, the status
\* of a completed or failed job never changes.
C9_StatusChangesAsStated ==
  [][\A j \in JobIds :
       status'[j] # status[j] =>
         <<status[j], status'[j]>> \in
           {<<"none", "waiting">>, <<"waiting", "active">>,
            <<"active", "completed">>, <<"active", "failed">>,
            <<"active", "waiting">>, <<"failed", "waiting">>,
            <<"completed", "removed">>, <<"failed", "removed">>}
    ]_vars

\* C9, amended: a status changes only from waiting to active, from active to
\* completed when the attempt returned, from active to failed when the attempt
\* that threw was the third, from active to delayed when an attempt below the
\* limit threw, and from delayed to waiting; a completed or failed job keeps
\* its status until the retention removes its record.
C9_StatusChanges ==
  [][\A j \in JobIds :
       status'[j] # status[j] =>
         \/ status[j] = "none" /\ status'[j] = "waiting"
         \/ status[j] = "waiting" /\ status'[j] = "active"
         \/ status[j] = "active" /\ status'[j] = "completed" /\ outcome = "return"
         \/ /\ status[j] = "active" /\ status'[j] = "failed"
            /\ outcome = "throw" /\ attemptsMade'[j] = Attempts
         \/ /\ status[j] = "active" /\ status'[j] = "delayed"
            /\ outcome = "throw" /\ attemptsMade'[j] < Attempts
         \/ status[j] = "delayed" /\ status'[j] = "waiting"
         \/ status[j] \in Terminal /\ status'[j] = "removed"
    ]_vars

\* C9, its case: a job waits for its next attempt after a failed one, having
\* been delayed in between.
C9_Witness ==
  \E j \in JobIds : status[j] = "waiting" /\ attemptsMade[j] >= 1

Completes(k) ==
  status[k] = "active" /\ outcome = "return" /\ attemptsMade'[k] = attemptsMade[k] + 1

\* jobs that, once k has completed, are in the completed set after j
CompletedAfter(j, k) ==
  {c \in JobIds \ {j} :
     /\ status[c] = "completed" \/ c = k
     /\ Later(finishedOn'[c], finishedOn[j])}

C11_OverlayWindowHalfOpen ==
  phase = "composed" =>
    \A k \in DOMAIN filterComplex :
      k \in shown <=> (request.subs[k].start <= frameT /\ frameT < request.subs[k].end)

\* an export request that the data model allows
WellFormed(req) ==
  /\ req.style.position = "custom" => req.style.customX # None /\ req.style.customY # None
  /\ \A k \in DOMAIN req.subs : req.subs[k].start >= 0 /\ req.subs[k].end > req.subs[k].start

\* C19: a request whose style has position custom without customX or customY,
\* or that has a cue with end <= start or start < 0, is not accepted: no
\* rendering and no filter graph is made for it.
C19_MalformedRejected ==
  phase \in {"accepted", "built", "composed"} => WellFormed(request)

\* C20: for a cue with k >= 1 word timestamps, the call with 'wordByWord'
\* returns exactly k sub-cues, the i-th with the text, the start and the end
\* of the i-th word.
C20_WordByWordFollowsTimestamps ==
  (returned /\ effectType = "wordByWord" /\ subtitle.hasWords /\ Len(subtitle.words) >= 1) =>
    /\ Len(wordSubtitles) = Len(subtitle.words)
    /\ \A k \in 1 .. Len(subtitle.words) :
         /\ wordSubtitles[k].text = <<subtitle.words[k].word>>
         /\ wordSubtitles[k].den = 1
         /\ wordSubtitles[k].start = subtitle.words[k].start
         /\ wordSubtitles[k].end = subtitle.words[k].end

\* C20, its case: a cue with two word timestamps that leave a gap, split
\* word by word.
C20_Witness ==
  /\ returned /\ effectType = "wordByWord" /\ subtitle.hasWords
  /\ Len(subtitle.words) = 2
  /\ subtitle.words[1].end < subtitle.words[2].start

\* C12: while the encoder of batch k runs, the batches before it have all
\* ended well and none has failed; its video input is the job's input video
\* when k = 0 and the output file of batch k-1 otherwise, a file that holds
\* the input video with the sub-cues of the batches before k burnt in.
C12_BatchInputIsPreviousOutput ==
  pc = "encoding" =>
    LET k == i \div BATCH_SIZE
    IN /\ i = k * BATCH_SIZE
       /\ encStarted = k + 1 /\ encOk = k /\ ~encFailed
       /\ currentVideoPath = IF k = 0 THEN tmpIn ELSE Path(cur, Attempt, "out", k - 1)
       /\ currentBatchOutputTmpFile = Path(cur, Attempt, "out", k)
       /\ Exists(currentVideoPath)
       /\ disk[currentVideoPath] = <<cur, k * BATCH_SIZE>>

\* C12, its case: the encoder of the third batch runs.
C12_Witness == pc = "encoding" /\ i \div BATCH_SIZE = 2

\* C13: the encoder invocations of an attempt take the sub-cues in list order:
\* the k-th invocation gets the contiguous slice that starts right after the
\* (k-1)-th slice, every slice but the last holds exactly BATCH_SIZE sub-cues
\* and the last holds between 1 and BATCH_SIZE; an attempt that returns for
\* M > 0 sub-cues has made exactly ceil(M / BATCH_SIZE) invocations, and every
\* sub-cue lies in exactly one slice.
C13_BatchesPartitionSubCues ==
  cur # NoJob =>
    LET M == data[cur]
        n == Len(batches)
        Size(k) == batches[k][2] - batches[k][1] + 1
    IN /\ n = encStarted
       /\ \A k \in 1 .. n :
            /\ batches[k][1] = IF k = 1 THEN 1 ELSE batches[k - 1][2] + 1
            /\ batches[k][2] <= M
            /\ Size(k) \in 1 .. BATCH_SIZE
            /\ (batches[k][2] < M) => Size(k) = BATCH_SIZE
       /\ (outcome = "return" /\ M > 0) =>
            /\ n * BATCH_SIZE >= M
            /\ (n - 1) * BATCH_SIZE < M
            /\ \A c \in 1 .. M :
                 Cardinality({k \in 1 .. n : batches[k][1] <= c /\ c <= batches[k][2]}) = 1

\* C13, its case: an attempt has returned after three invocations, the last
\* of them with a slice shorter than BATCH_SIZE.
C13_Witness ==
  /\ outcome = "return"
  /\ Len(batches) = 3
  /\ batches[3][2] - batches[3][1] + 1 < BATCH_SIZE

\* C15 as stated: no deletion of an execution is called on a file that a
\* deletion of the same execution was called on before.
C15_NoFileTargetedTwice == retargeted = {}

\* C15, amended: a deletion is called a second time on a file only in the
\* final cleanup of the previous batch output, after the in-loop deletion of
\* that same file has failed and thrown: line 357 was skipped, the file is
\* still on disk, and no other file is ever the target of two deletions.
C15_RetargetedOnlyAfterFailedDeletion ==
  [][\A f \in retargeted' \ retargeted :
       /\ pc = "finally2"
       /\ f = previousBatchTmpFile
       /\ f[3] = "out"
       /\ delFailed
       /\ outcome = "throw"
       /\ Exists(f)
       /\ retargeted = {}]_vars

\* C15, its case: the final cleanup has been called on the batch output whose
\* in-loop deletion failed.
C15_Witness == pc \in {"finally3", "ended"} /\ retargeted # {}

C16_FinalProgressIs100 ==
  /\ (cur # NoJob /\ outcome = "return") =>
       /\ progress[cur] = 100 * Den(cur)
       /\ \A k \in 1 .. Len(inflight) : inflight[k][1] # cur
  /\ \A j \in JobIds : status[j] = "completed" => progress[j] = 100 * Den(j)

\* C16, its case: the attempt has returned with progress 100 although
\* progress writes of the encoder were still in flight when its last batch
\* ended.
C16_Witness ==
  /\ outcome = "return"
  /\ lateWrites
  /\ batches # <<>>
  /\ progress[cur] = 100 * Den(cur)

\* C17: every progress value that the progress handler reports while batch k
\* (0-based) of n batches is encoding lies between k*100/n and (k+1)*100/n
\* (here times n: between k*100 and (k+1)*100), whatever percent the encoder
\* reports.
C17_ProgressWithinBatchInterval ==
  [][(pc = "encoding" /\ Len(inflight') > Len(inflight)) =>
       LET v == inflight'[Len(inflight')][2]
           k == i \div BATCH_SIZE
       IN k * 100 <= v /\ v <= (k + 1) * 100]_vars

\* C18: in an attempt for a job without sub-cues the encoder is never
\* invoked and no batch output is created or named; when the attempt returns,
\* its result is the encoding of the bytes of the input file, and a completed
\* job without sub-cues has that result as its return value.
C18_EmptyListReturnsInput ==
  /\ (cur # NoJob /\ data[cur] = 0) =>
       /\ encStarted = 0
       /\ batches = <<>>
       /\ OnDisk("out") = {}
       /\ currentBatchOutputTmpFile = None
       /\ pc \in {"read", "final100"} =>
            /\ currentVideoPath = tmpIn
            /\ disk[tmpIn] = <<cur, 0>>
       /\ outcome = "return" => resultBase64 = <<(<<cur, 0>>)>>
  /\ \A j \in JobIds :
       (status[j] = "completed" /\ data[j] = 0) => returnvalue[j] = <<(<<j, 0>>)>>

\* C18, its case: a job without sub-cues is completed with its input as the
\* result.
C18_Witness ==
  \E j \in JobIds :
    /\ status[j] = "completed"
    /\ data[j] = 0
    /\ returnvalue[j] = <<(<<j, 0>>)>>

\* C21: for a cue with at least one word timestamp, the last sub-cue that
\* the call with 'cumulativePopOn' returns ends when the cue ends.
C21_LastCumulativeEndsWithCue ==
  (returned /\ effectType = "cumulativePopOn" /\ subtitle.hasWords
     /\ Len(subtitle.words) >= 1) =>
    /\ Len(wordSubtitles) >= 1
    /\ wordSubtitles[Len(wordSubtitles)].den = 1
    /\ wordSubtitles[Len(wordSubtitles)].end = subtitle.end

\* C21, its case: the step of the last word was dropped (the word starts when
\* the cue ends or later), and the last sub-cue returned is the step of an
\* earlier word.
C21_Witness ==
  /\ returned /\ effectType = "cumulativePopOn" /\ subtitle.hasWords
  /\ Len(subtitle.words) = 2
  /\ Len(wordSubtitles) = 1
  /\ wordSubtitles[1].id = subtitle.id \o <<"-cumulative-", 0>>
  /\ wordSubtitles[1].end = subtitle.end

\* C22: every sub-cue that the call with 'cumulativePopOn' makes from the
\* word of index i starts when that word starts, ends at least 0.001 after
\* its start, and ends no later than the cue.
C22_CumulativeStepWindow ==
  (returned /\ effectType = "cumulativePopOn" /\ subtitle.hasWords
     /\ Len(subtitle.words) >= 1) =>
    \A k \in 1 .. Len(wordSubtitles) :
      LET s == wordSubtitles[k]
      IN s.id # subtitle.id =>
           /\ s.start = subtitle.words[s.id[Len(s.id)] + 1].start
           /\ s.start + Epsilon <= s.end
           /\ s.end <= subtitle.end

\* C23: the call returns at least one sub-cue for every cue and every effect
\* type: also for an empty words array and for an empty text, and when
\* clamping drops every cumulative step, in which case the result is the cue
\* itself (with its originalId).
C23_ExpansionNeverEmpty ==
  returned =>
    /\ Len(wordSubtitles) >= 1
    /\ (/\ effectType = "cumulativePopOn" /\ subtitle.hasWords
        /\ Len(subtitle.words) >= 1
        /\ \A k \in 1 .. Len(subtitle.words) :
             FinalEndTime(subtitle, k) <= subtitle.words[k].start)
       => wordSubtitles = <<WithOriginalId(subtitle)>>

\* C23, its case: a cue with two word timestamps whose cumulative steps were
\* both dropped, and the cue itself was returned.
C23_Witness ==
  /\ returned /\ effectType = "cumulativePopOn" /\ subtitle.hasWords
  /\ Len(subtitle.words) = 2
  /\ \A k \in 1 .. 2 : subtitle.words[k].start >= subtitle.end
  /\ wordSubtitles = <<WithOriginalId(subtitle)>>

C25_SubCueIdsDistinct ==
  (expanded /\ \A a, b \in DOMAIN subs : a # b => subs[a].id # subs[b].id) =>
    /\ \A a, b \in DOMAIN processedSubsForFfmpeg :
         a # b => processedSubsForFfmpeg[a].id # processedSubsForFfmpeg[b].id
    /\ styleEffect # "none" =>
         \A a \in DOMAIN processedSubsForFfmpeg :
           processedSubsForFfmpeg[a].originalId = subs[expandedFrom[a]].id

\* C26: whenever the number of sub-cues of a call of runFfmpegBatch differs
\* from its number of image paths, buildOverlayFilterComplex throws: the call
\* ends without a graph, without a command and without a spawned encoder;
\* with equal numbers it does not throw.
C26_MismatchThrowsBeforeEncoder ==
  (batchPhase \notin {"none", "called"}) =>
    IF Len(batchArgs.subtitles) # Len(batchArgs.pngPaths)
    THEN batchPhase = "thrown" /\ ffmpegCommand = None
    ELSE /\ batchPhase \in {"spawned", "resolved", "rejected"}
         /\ ffmpegCommand # None
         /\ Len(ffmpegCommand.complexFilter) = Len(batchArgs.subtitles)

\* C26, its case: a call with more images than sub-cues has thrown.
C26_Witness ==
  /\ batchPhase = "thrown"
  /\ Len(batchArgs.subtitles) >= 1
  /\ Len(batchArgs.pngPaths) > Len(batchArgs.subtitles)

\* C27: for a batch of N >= 1 sub-cues the graph has N overlay stages in one
\* chain: stage 1 reads the base video 0:v, stage i > 1 reads the output of
\* stage i-1, stage i overlays image input i, which is the i-th image path,
\* and the stream mapped to the output file is the output of stage N.
C27_OverlayChain ==
  (ffmpegCommand # None /\ Len(batchArgs.subtitles) >= 1) =>
    LET N == Len(batchArgs.subtitles)
        g == ffmpegCommand.complexFilter
    IN /\ Len(g) = N
       /\ Len(ffmpegCommand.inputs) = N + 1
       /\ ffmpegCommand.inputs[1] = "inputVideoPath"
       /\ g[1].main = InputStream(0)
       /\ \A k \in 1 .. N :
            /\ k > 1 => g[k].main = g[k - 1].out
            /\ g[k].overlay = InputStream(k)
            /\ ffmpegCommand.inputs[k + 1] = batchArgs.pngPaths[k]
            /\ \A m \in 1 .. N : m # k => g[m].out # g[k].out
       /\ ffmpegCommand.map = g[N].out

\* C27, its case: the encoder was spawned with a graph of two stages.
C27_Witness ==
  /\ batchPhase = "spawned"
  /\ Len(ffmpegCommand.complexFilter) = 2
  /\ ffmpegCommand.map = StageOutput(2)

\* C28: for every text, the empty one and those of a width that is not an
\* integer included, boxWidth and boxHeight of the metrics are even integers
\* and are at least 2 x paddingScaled.
C28_BoxEvenAndPadded ==
  metrics # None =>
    LET m == metrics[1]
    IN /\ m.boxWidth # MinusInfinity
       /\ m.boxWidth[1] % (2 * Unit) = 0
       /\ m.boxWidth[1] >= 2 * m.paddingScaled
       /\ m.boxHeight[1] % (2 * Unit) = 0
       /\ m.boxHeight[1] >= 2 * m.paddingScaled

\* C29: every observed call, all with the same text, style, width and height,
\* returns the metrics that the first of them returned.
C29_SameInputsSameMetrics ==
  metrics # None => metrics = firstMetrics

\* C30: for every explicit line, the words are packed greedily.  Each output
\* line of two or more words is at most MaxTextWidth wide; a line is closed
\* exactly when it would be wider with the next word; a word wider than the
\* limit is alone on its line; and the words of the output lines, in order,
\* are the words of the explicit line (empty words at the start of an output
\* line, which only stand for spaces, apart).  The lines of the metrics are
\* the lines of the explicit lines in order.
C30_GreedyLines ==
  metrics # None =>
    LET font == metrics[1].fontFamily
        NonEmpty(ws) == SelectSeq(ws, LAMBDA w : w # "")
        Flat(ls) == LET F[k \in 0 .. Len(ls)] ==
                          IF k = 0 THEN <<>> ELSE F[k - 1] \o ls[k]
                    IN F[Len(ls)]
        Good(seg) ==
          LET ls == Wrap(seg, 1, <<>>, font)
          IN /\ NonEmpty(Flat(ls)) = NonEmpty(seg)
             /\ \A k \in 1 .. Len(ls) :
                  /\ Len(ls[k]) >= 1
                  /\ Len(ls[k]) >= 2 => MeasureText(ls[k], font) <= MaxTextWidth
                  /\ (\E n \in 1 .. Len(ls[k]) :
                        MeasureWord(ls[k][n], font) > MaxTextWidth) => Len(ls[k]) = 1
                  /\ k < Len(ls) =>
                       MeasureText(Append(ls[k], ls[k + 1][1]), font) > MaxTextWidth
    IN /\ \A n \in DOMAIN layoutArgs.text : Good(layoutArgs.text[n])
       /\ metrics[1].lines =
            Flat([n \in DOMAIN layoutArgs.text |-> Wrap(layoutArgs.text[n], 1, <<>>, font)])

\* C30, its case: an explicit line of a word that fits and a word wider than
\* the limit was laid out as two lines.
C30_Witness ==
  /\ metrics # None
  /\ layoutArgs.text[1] = <<"a", "W">>
  /\ metrics[1].lines[1] = <<"a">>
  /\ metrics[1].lines[2] = <<"W">>

(***************************************************************************)
(* Video files that are still needed.                                      *)
(***************************************************************************)
\* the video file f is needed in the current state: it is the input the next
\* or the running batch reads, the output the batch that has just ended
\* wrote, or the file the result is about to be read from
Needed(f) ==
  \/ pc \in {"loop", "encode", "encoding", "read"} /\ f = currentVideoPath
  \/ pc \in {"encoding", "afterBatch"} /\ f = currentBatchOutputTmpFile

\* C31: no video file is deleted while it is still needed: no step removes
\* from the disk the input of a batch whose encoder has not ended, the output
\* of the batch that has just ended, or the file (last batch output, or the
\* input video when there are no sub-cues) whose bytes are still to be read
\* as the job result.
C31_NeededVideoNotDeleted ==
  [][\A f \in DOMAIN disk : Needed(f) => f \in DOMAIN disk']_vars

\* a two-batch job returned: the first batch output was deleted inside the
\* loop, and the result read was the input with every sub-cue burnt in
C31_Witness ==
  /\ pc = "ended"
  /\ outcome = "return"
  /\ Len(batches) = 2
  /\ Path(cur, Attempt, "out", 0) \in targeted
  /\ resultBase64 = <<<<cur, data[cur]>>>>

(***************************************************************************)
(* The encoder invocation of the batch in progress (pc = "encoding"): the  *)
(* arguments processVideoExport passes to runFfmpegBatch, the inputs of    *)
(* the command and the graph built for them.                               *)
(***************************************************************************)
\* sub-cue k of processedSubsForFfmpeg, as far as the graph reads it; the
\* model gives sub-cue k the window [k, k], so that a stage's window names
\* the sub-cue it was built for
SubCue(k) == [start |-> k, end |-> k]

\* processedSubsForFfmpeg.slice(i, i + BATCH_SIZE)
BatchSubs == [n \in 1 .. SliceLen(data[cur], i) |-> SubCue(i + n)]

\* currentPngBatchPaths.slice(i, i + BATCH_SIZE)
BatchPngs == [n \in 1 .. SliceLen(Len(allPngPaths), i) |-> allPngPaths[i + n]]

\* the inputs of the encoder command: the video, then the images in order
EncoderInputs == <<currentVideoPath>> \o BatchPngs

\* the graph of the batch
BatchGraph ==
  buildOverlayFilterComplex(BatchSubs, BatchPngs,
      [position |-> "bottom", customX |-> None, customY |-> None], 1080).graph

\* the image file the encoder overlays at stage n of the batch's graph
StageImage(n) == disk[EncoderInputs[BatchGraph[n].overlay[2] + 1]]

\* C32: in every encoder invocation, every sub-cue of the batch has one
\* overlay stage, and the image the encoder overlays at the stage built for
\* a sub-cue (the stage enabled on that sub-cue's window) is the image
\* rasterized from that same sub-cue, whatever order the rasterizations
\* finished in.
C32_StageImageIsOfItsSubCue ==
  pc = "encoding" =>
    /\ Len(BatchGraph) = SliceLen(data[cur], i)
    /\ \A n \in DOMAIN BatchGraph :
         /\ BatchGraph[n].from = i + n
         /\ StageImage(n) = <<"png", BatchGraph[n].from>>

\* the encoder runs the second batch of a job of three sub-cues
C32_Witness ==
  /\ pc = "encoding"
  /\ i = BATCH_SIZE
  /\ data[cur] = BATCH_SIZE + 1
  /\ Len(BatchGraph) = 1
  /\ StageImage(1) = <<"png", BATCH_SIZE + 1>>

\* C33: for a cue whose word start times are non-decreasing, consecutive
\* sub-cues produced by cumulativePopOn never overlap: the end of each sub-cue
\* is less than or equal to the start of the next one.
C33_CumulativeStepsDisjoint ==
  (/\ returned
   /\ effectType = "cumulativePopOn"
   /\ subtitle.hasWords
   /\ Len(subtitle.words) > 0
   /\ \A k \in 1 .. Len(subtitle.words) - 1 :
        subtitle.words[k].start <= subtitle.words[k + 1].start)
  => \A k \in 1 .. Len(wordSubtitles) - 1 :
       wordSubtitles[k].end <= wordSubtitles[k + 1].start

\* C34: during final cleanup, a failure to delete one temporary artifact
\* (the input video, the last batch output, or a PNG) does not prevent the
\* deletion of the remaining artifacts: when the finally block is over, a
\* deletion has been called on the input video, on the last batch output and
\* on every PNG collected.
C34_CleanupReachesEveryArtifact ==
  (pc = "ended" /\ tmpIn # None) =>
    /\ tmpIn \in targeted
    /\ previousBatchTmpFile # None => previousBatchTmpFile \in targeted
    /\ Range(allPngPaths) \subseteq targeted

(***************************************************************************)
(* The frames of one cue in the effect branch of processVideoExport        *)
(* (queue.ts:291-305): the cue is split, its full text is laid out, then   *)
(* every sub-cue's partial text is laid out and drawn by                   *)
(* renderSubtitleToPng on a canvas of the fixed size.  A cue's text is the *)
(* list of its space-separated words; a word may hold line breaks, so a    *)
(* word is itself a list of explicit lines of one piece each.              *)
(***************************************************************************)
\* t1 + ' ' + t2 of two texts given as explicit lines of words
JoinSpace(t1, t2) ==
  SubSeq(t1, 1, Len(t1) - 1) \o <<t1[Len(t1)] \o t2[1]>> \o Tail(t2)

\* text.split(' ') of a text given as explicit lines of words: a piece that
\* ends an explicit line and the piece that starts the next one are one word
RECURSIVE SpaceWords(_)
SpaceWords(text) ==
  LET seg == text[1]
      own == [k \in 1 .. Len(seg) - 1 |-> <<(<<seg[k]>>)>>]
      last == <<(<<seg[Len(seg)]>>)>>
  IN IF Len(text) = 1 THEN Append(own, last)
     ELSE LET rest == SpaceWords(Tail(text))
          IN own \o <<last \o Head(rest)>> \o Tail(rest)

\* words.join(' ') as explicit lines of words, for calculateSubtitleLayoutMetrics
RECURSIVE ToLayoutText(_)
ToLayoutText(words) ==
  IF Len(words) = 1 THEN words[1]
  ELSE JoinSpace(ToLayoutText(SubSeq(words, 1, Len(words) - 1)), words[Len(words)])

\* the cue with the text t whose word timestamps are the space-separated
\* words of t, word k from 2 (k - 1) to 2 k, in a cue that ends at endTime
TimedCue(t, endTime) ==
  [id |-> <<"c">>, text |-> SpaceWords(t), start |-> 0, end |-> endTime,
   hasWords |-> TRUE,
   words |-> [k \in 1 .. Len(SpaceWords(t)) |->
                [word |-> SpaceWords(t)[k], start |-> 2 * (k - 1), end |-> 2 * k]]]

\* a number that may be -Infinity is at most another
Leq(x, y) == x = MinusInfinity \/ (y # MinusInfinity /\ x[1] <= y[1])

\* a job with an effect and one cue reaches the effect branch in a process
\* that has loaded the module
InitFrames ==
  /\ InitQueue /\ NoRequest /\ NoExpansion /\ NoBatch
  /\ \E t \in LayoutTexts :
       /\ subtitle \in {TimedCue(t, endTime) : endTime \in {0, 2 * Len(SpaceWords(t))}}
       /\ layoutArgs \in [text : {t}, fontFamily : FontFamilies, videoHeight : {750}]
  /\ effectType \in {"cumulativePopOn", "wordByWord"}
  /\ wordSubtitles = <<>>
  /\ returned = FALSE
  /\ fontFiles = FONT_MAP
  /\ ModuleLoaded
  /\ metrics = None
  /\ firstMetrics = None
  /\ canvases = <<>>
  /\ InitEditor
  /\ InitStore

\* lines 293-294: wordSubtitles and fullLayoutMetrics (the first layout call)
SplitAndFullLayout ==
  /\ ~returned
  /\ wordSubtitles' = splitSubtitleIntoWords(subtitle, effectType)
  /\ returned' = TRUE
  /\ \E font \in MeasuringFonts(layoutArgs.fontFamily, registeredFonts, fontFiles) :
       firstMetrics' = <<LayoutMetrics(ToLayoutText(subtitle.text), layoutArgs.fontFamily,
                                       layoutArgs.videoHeight, registeredFonts,
                                       fontFiles, font)>>
  /\ metrics' = firstMetrics'
  /\ registeredFonts' = Registered(layoutArgs.fontFamily, registeredFonts, fontFiles)
  /\ UNCHANGED <<svars, ovars, evars, bvars, subtitle, effectType, layoutArgs,
                 fontFiles, canvases, uvars, tvars>>

\* lines 295-303 for the next sub-cue: partialLayoutMetrics, then
\* renderSubtitleToPng creates its canvas with fixedCanvasSize
RenderFrame ==
  /\ returned
  /\ Len(canvases) < Len(wordSubtitles)
  /\ LET wordSub == wordSubtitles[Len(canvases) + 1]
     IN \E font \in MeasuringFonts(layoutArgs.fontFamily, registeredFonts, fontFiles) :
          metrics' = <<LayoutMetrics(ToLayoutText(wordSub.text), layoutArgs.fontFamily,
                                     layoutArgs.videoHeight, registeredFonts,
                                     fontFiles, font)>>
  /\ canvases' = Append(canvases, [width |-> firstMetrics[1].boxWidth,
                                   height |-> firstMetrics[1].boxHeight])
  /\ registeredFonts' = Registered(layoutArgs.fontFamily, registeredFonts, fontFiles)
  /\ UNCHANGED <<svars, ovars, evars, bvars, subtitle, effectType, wordSubtitles,
                 returned, layoutArgs, fontFiles, firstMetrics, uvars, tvars>>

NextFrames ==
  \/ SplitAndFullLayout
  \/ RenderFrame

SpecFrames == InitFrames /\ [][NextFrames]_vars

\* C35: in the effect branch, every frame of a cue is drawn on a canvas of
\* the cue's full-text box size, and when the cue's word timestamps are the
\* space-separated words of its text, the partial layout's text width and
\* line count never exceed those of the full-text layout.
C35_PartialFitsFullBox ==
  canvases # <<>> =>
    /\ \A k \in DOMAIN canvases :
         /\ canvases[k].width = firstMetrics[1].boxWidth
         /\ canvases[k].height = firstMetrics[1].boxHeight
    /\ Leq(metrics[1].textWidth, firstMetrics[1].textWidth)
    /\ Len(metrics[1].lines) <= Len(firstMetrics[1].lines)

(***************************************************************************)
(* The editor component (part_001): the export button, handleExport, the   *)
(* export mutation and the status polling.  React applies the state        *)
(* updates of a handler step before the next event is handled.  The server *)
(* side of the mutation and of the status query moves a submitted job from *)
(* waiting to active and to completed or failed.                           *)
(***************************************************************************)
\* exportVideoMutation.isPending: the mutation observer follows its last mutate
IsPending == mutation.status = "pending"

\* the handlers with c at the position pc
At(c, pc_) == [handlers EXCEPT ![c].pc = pc_]

\* the export job of a call is terminal
JobTerminal(j) == exportJobs[j] \in {"completed", "failed"}

\* the submission of call c is in progress: it reads the video file, it
\* awaits the mutation, or the job it submitted has not reached a terminal
\* status
InProgress(c) ==
  \/ handlers[c].pc \in {"reading", "mutating"}
  \/ handlers[c].pc = "submitted" /\ ~JobTerminal(handlers[c].job)

\* a click on the export button (not disabled: exportStatus is not
\* 'processing') runs handleExport up to its first await
HandleExport(c) ==
  /\ handlers[c].pc = "idle"
  /\ \A d \in 1 .. c - 1 : handlers[d].pc # "idle"
  /\ exportStatus # "processing"
  /\ IF IsPending \/ exportJobId # None
     THEN /\ handlers' = At(c, "refused")
          /\ UNCHANGED <<exportJobId, exportStatus>>
     ELSE /\ exportJobId' = None
          /\ exportStatus' = "starting"
          /\ handlers' = At(c, "reading")
  /\ UNCHANGED <<svars, ovars, xvars, evars, bvars, lvars, gvars, tvars, mutation, exportJobs>>

\* the catch block of handleExport
ExportCatch(c) ==
  /\ exportStatus' = "failed"
  /\ exportJobId' = None
  /\ handlers' = At(c, "failed")

\* the FileReader settles: on success mutateAsync is called
FileRead(c, ok) ==
  /\ handlers[c].pc = "reading"
  /\ IF ok
     THEN /\ mutation' = [call |-> c, status |-> "pending"]
          /\ handlers' = At(c, "mutating")
          /\ UNCHANGED <<exportJobId, exportStatus>>
     ELSE /\ ExportCatch(c)
          /\ UNCHANGED mutation
  /\ UNCHANGED <<svars, ovars, xvars, evars, bvars, lvars, gvars, tvars, exportJobs>>

\* the mutation of call c settles: on success the server has queued a job
\* and answered with its id
MutationSettles(c, ok) ==
  /\ handlers[c].pc = "mutating"
  /\ mutation' = IF mutation.call = c
                 THEN [call |-> c, status |-> IF ok THEN "success" ELSE "error"]
                 ELSE mutation
  /\ IF ok
     THEN /\ exportJobs' = Append(exportJobs, "waiting")
          /\ exportJobId' = <<Len(exportJobs) + 1>>
          /\ exportStatus' = "queued"
          /\ handlers' = [handlers EXCEPT ![c] = [pc |-> "submitted",
                                                   job |-> Len(exportJobs) + 1]]
     ELSE /\ ExportCatch(c)
          /\ UNCHANGED exportJobs
  /\ UNCHANGED <<svars, ovars, xvars, evars, bvars, lvars, gvars, tvars>>

\* the queue and the worker move an export job on
ExportJobMoves(j, to) ==
  /\ j \in DOMAIN exportJobs
  /\ \/ exportJobs[j] = "waiting" /\ to = "active"
     \/ exportJobs[j] = "active" /\ to \in {"completed", "failed"}
  /\ exportJobs' = [exportJobs EXCEPT ![j] = to]
  /\ UNCHANGED <<svars, ovars, xvars, evars, bvars, lvars, gvars, tvars, exportJobId,
                 exportStatus, mutation, handlers>>

\* a poll of getJobStatus answers and the effect on jobStatusData runs
PollJobStatus ==
  /\ exportJobId # None
  /\ exportStatus \notin {"completed", "failed"}
  /\ exportStatus' = exportJobs[exportJobId[1]]
  /\ exportJobId' = IF JobTerminal(exportJobId[1]) THEN None ELSE exportJobId
  /\ UNCHANGED <<svars, ovars, xvars, evars, bvars, lvars, gvars, tvars, mutation,
                 handlers, exportJobs>>

NextEditor ==
  \/ \E c \in 1 .. MaxExports : HandleExport(c)
  \/ \E c \in 1 .. MaxExports, ok \in BOOLEAN : FileRead(c, ok)
  \/ \E c \in 1 .. MaxExports, ok \in BOOLEAN : MutationSettles(c, ok)
  \/ \E j \in 1 .. MaxExports, to \in {"active", "completed", "failed"} :
       ExportJobMoves(j, to)
  \/ PollJobStatus

SpecEditor == Init /\ [][NextEditor]_vars

\* C36: the editor never has two export submissions in progress at once:
\* while the submission of one handleExport call is in progress (from its
\* reading of the video file until its job is terminal or the submission
\* fails), no later handleExport call submits an export job.
C36_NoSecondSubmission ==
  [][\A c, d \in 1 .. MaxExports :
       (c < d /\ handlers[d].pc = "mutating" /\ handlers'[d].pc = "submitted")
         => ~InProgress(c)]_vars

(***************************************************************************)
(* The subtitle store (part_005).  A cue is its id, its start and its      *)
(* words (None when absent); a value of the stacks is a list of cues.  The *)
(* store's functions are operators on the store's state st.                *)
(***************************************************************************)
\* the cues that the editor adds
NewCues == [id : {"a", "b"}, start : {0, 1}, words : {None}]

\* the lists that the editor adds at once (the transcription of a video)
NewLists ==
  {<<>>,
   <<[id |-> "a", start |-> 1, words |-> None]>>,
   <<[id |-> "a", start |-> 1, words |-> None], [id |-> "b", start |-> 0, words |-> None]>>}

\* subtitleChanges of updateSubtitle: start is None when the key is absent;
\* words is "absent", "same" (the very array the cue holds) or "fresh" (a
\* new array with the words "w"); a call changes the time or the words
Changes ==
  [start : {None}, words : {"absent", "same", "fresh"}]
    \cup [start : {<<0>>, <<1>>}, words : {"absent"}]

\* snapshot: a copy of every cue and of its words
snapshot(list) ==
  [k \in DOMAIN list |->
     [id |-> list[k].id, start |-> list[k].start,
      words |-> IF list[k].words = None THEN None
                ELSE [n \in DOMAIN list[k].words |-> list[k].words[n]]]]

\* list.slice(0, n)
Take(list, n) == SubSeq(list, 1, Min(n, Len(list)))

\* [entry, ...stack].slice(0, MAX_HISTORY_LENGTH)
PushHistory(entry, stack) == Take(<<entry>> \o stack, MAX_HISTORY_LENGTH)

\* _addUndoState
addUndoState(st, prevStateSnapshot) ==
  [st EXCEPT !.undoStack = PushHistory(prevStateSnapshot, st.undoStack),
             !.redoStack = <<>>]

\* the place of a cue in a list sorted by start, after the cues that do not
\* start later (Array.prototype.sort is stable)
RECURSIVE InsertByStart(_, _)
InsertByStart(sub, sorted) ==
  IF sorted = <<>> THEN <<sub>>
  ELSE IF sorted[Len(sorted)].start <= sub.start THEN Append(sorted, sub)
  ELSE Append(InsertByStart(sub, SubSeq(sorted, 1, Len(sorted) - 1)), sorted[Len(sorted)])

\* list.sort((a, b) => a.start - b.start)
RECURSIVE SortByStart(_)
SortByStart(list) ==
  IF list = <<>> THEN <<>>
  ELSE InsertByStart(list[Len(list)], SortByStart(SubSeq(list, 1, Len(list) - 1)))

addSubtitle(st, sub) ==
  [addUndoState(st, snapshot(st.subtitles)) EXCEPT !.subtitles = Append(st.subtitles, sub)]

addSubtitles(st, newSubtitles) ==
  IF Len(newSubtitles) = 0 THEN st
  ELSE [addUndoState(st, snapshot(st.subtitles)) EXCEPT
          !.subtitles = SortByStart(st.subtitles \o newSubtitles)]

\* Object.keys(subtitleChanges).some(key => sub[key] !== subtitleChanges[key]):
\* numbers are compared by value, arrays by identity
Changed(sub, subtitleChanges) ==
  \/ subtitleChanges.start # None /\ sub.start # subtitleChanges.start[1]
  \/ subtitleChanges.words = "fresh"

\* { ...sub, ...subtitleChanges }
Merged(sub, subtitleChanges) ==
  [id |-> sub.id,
   start |-> IF subtitleChanges.start = None THEN sub.start ELSE subtitleChanges.start[1],
   words |-> IF subtitleChanges.words = "fresh" THEN <<"w">> ELSE sub.words]

updateSubtitle(st, id, subtitleChanges) ==
  LET prevState == st.subtitles
      hit(k) == prevState[k].id = id /\ Changed(prevState[k], subtitleChanges)
      nextSubtitles == [k \in DOMAIN prevState |->
                          IF hit(k) THEN Merged(prevState[k], subtitleChanges)
                          ELSE prevState[k]]
  IN IF \E k \in DOMAIN prevState : hit(k)
     THEN [addUndoState(st, snapshot(prevState)) EXCEPT
             !.subtitles = SortByStart(nextSubtitles)]
     ELSE st

\* prevState.filter(sub => sub.id !== id)
RECURSIVE WithoutId(_, _)
WithoutId(list, id) ==
  IF list = <<>> THEN <<>>
  ELSE IF Head(list).id = id THEN WithoutId(Tail(list), id)
  ELSE <<Head(list)>> \o WithoutId(Tail(list), id)

deleteSubtitle(st, id) ==
  IF Len(WithoutId(st.subtitles, id)) # Len(st.subtitles)
  THEN [addUndoState(st, snapshot(st.subtitles)) EXCEPT
          !.subtitles = WithoutId(st.subtitles, id)]
  ELSE st

clearSubtitles(st) ==
  IF Len(st.subtitles) > 0
  THEN [addUndoState(st, snapshot(st.subtitles)) EXCEPT !.subtitles = <<>>]
  ELSE [st EXCEPT !.subtitles = <<>>]

undo(st) ==
  IF Len(st.undoStack) > 0
  THEN [subtitles |-> Head(st.undoStack),
        undoStack |-> Tail(st.undoStack),
        redoStack |-> PushHistory(snapshot(st.subtitles), st.redoStack)]
  ELSE st

\* a redo that does not put the present list back on the undo stack
redoWithoutUndoEntry(st) ==
  IF Len(st.redoStack) > 0
  THEN [subtitles |-> Head(st.redoStack),
        undoStack |-> st.undoStack,
        redoStack |-> Tail(st.redoStack)]
  ELSE st

redo(st) ==
  IF Len(st.redoStack) > 0
  THEN [subtitles |-> Head(st.redoStack),
        undoStack |-> PushHistory(snapshot(st.subtitles), st.undoStack),
        redoStack |-> Tail(st.redoStack)]
  ELSE st

\* the rest of the model is untouched by the store
StoreOnly == UNCHANGED <<svars, ovars, xvars, evars, bvars, lvars, gvars, uvars>>

AddSubtitle(sub) ==
  /\ Len(useSubtitleStore.subtitles) < MaxStoreSubs
  /\ useSubtitleStore' = addSubtitle(useSubtitleStore, sub)
  /\ StoreOnly

AddSubtitles(newSubtitles) ==
  /\ Len(useSubtitleStore.subtitles) + Len(newSubtitles) <= MaxStoreSubs
  /\ useSubtitleStore' = addSubtitles(useSubtitleStore, newSubtitles)
  /\ StoreOnly

UpdateSubtitle(id, subtitleChanges) ==
  /\ useSubtitleStore' = updateSubtitle(useSubtitleStore, id, subtitleChanges)
  /\ StoreOnly

DeleteSubtitle(id) ==
  /\ useSubtitleStore' = deleteSubtitle(useSubtitleStore, id)
  /\ StoreOnly

ClearSubtitles ==
  /\ useSubtitleStore' = clearSubtitles(useSubtitleStore)
  /\ StoreOnly

Undo ==
  /\ useSubtitleStore' = undo(useSubtitleStore)
  /\ StoreOnly

Redo ==
  /\ useSubtitleStore' = redo(useSubtitleStore)
  /\ StoreOnly

NextStore ==
  \/ \E sub \in NewCues : AddSubtitle(sub)
  \/ \E newSubtitles \in NewLists : AddSubtitles(newSubtitles)
  \* the cue that is edited is "a"; no cue has the id "z"
  \/ \E id \in {"a", "z"}, subtitleChanges \in Changes :
       UpdateSubtitle(id, subtitleChanges)
  \/ \E id \in {"a", "b", "z"} : DeleteSubtitle(id)
  \/ ClearSubtitles
  \/ Undo
  \/ Redo

SpecStore == Init /\ [][NextStore]_vars

\* C37: after any sequence of store actions from the empty store, the
\* subtitle list is sorted by non-decreasing start.
C37_SubtitlesSorted ==
  \A k \in 1 .. Len(useSubtitleStore.subtitles) - 1 :
    useSubtitleStore.subtitles[k].start <= useSubtitleStore.subtitles[k + 1].start

\* C38: from every reachable state of the store in which undo is possible,
\* undo followed immediately by redo restores the subtitle list, the undo
\* stack and the redo stack to the values they had before the undo.
C38_UndoRedoRestores ==
  Len(useSubtitleStore.undoStack) > 0 =>
    redo(undo(useSubtitleStore)) = useSubtitleStore

\* undo is possible with both stacks in use and the history at its limit: the
\* undo pushes on a redo stack that holds an entry already
C38_Witness ==
  /\ Len(useSubtitleStore.undoStack) > 0
  /\ Len(useSubtitleStore.redoStack) > 0
  /\ Len(useSubtitleStore.undoStack) + Len(useSubtitleStore.redoStack) = MAX_HISTORY_LENGTH
  /\ useSubtitleStore.subtitles # Head(useSubtitleStore.undoStack)
  /\ undo(useSubtitleStore) # useSubtitleStore
  /\ redo(undo(useSubtitleStore)) = useSubtitleStore

\* the mutating calls of the store that the editor may make in the state st,
\* each with the state it leads to
Mutations(st) ==
  {addSubtitle(st, sub) : sub \in {c \in NewCues : Len(st.subtitles) < MaxStoreSubs}}
  \cup {addSubtitles(st, l) : l \in {n \in NewLists : Len(st.subtitles) + Len(n) <= MaxStoreSubs}}
  \cup {updateSubtitle(st, id, ch) : id \in {"a", "z"}, ch \in Changes}
  \cup {deleteSubtitle(st, id) : id \in {"a", "b", "z"}}
  \cup {clearSubtitles(st)}

\* C39: a mutating store action pushes the pre-action subtitle list on the
\* undo stack and empties the redo stack if and only if it changes the
\* subtitle list; an action that changes nothing leaves the undo and redo
\* stacks unchanged.
C39_HistoryIffListChanges ==
  \A t \in Mutations(useSubtitleStore) :
    IF t.subtitles # useSubtitleStore.subtitles
    THEN /\ t.undoStack = PushHistory(useSubtitleStore.subtitles, useSubtitleStore.undoStack)
         /\ t.redoStack = <<>>
    ELSE /\ t.undoStack = useSubtitleStore.undoStack
         /\ t.redoStack = useSubtitleStore.redoStack

====
